---- MODULE Spec2Model ----
(***************************************************************************)
(* Model of the admin worker: the JWT codec and token service              *)
(* (auth/validators.js), the authentication middleware                     *)
(* (auth/middleware.js), the router (router.js), the auth handlers         *)
(* (handlers/auth.js) and the worker entry point (index.js).               *)
(*                                                                         *)
(* Representation.  A JavaScript string is a sequence of one-character     *)
(* strings; a binary string / byte array is a sequence of numbers in       *)
(* 0..255.  A call that can throw returns [ok |-> FALSE, err |-> message]  *)
(* instead of [ok |-> TRUE, val |-> value].                                *)
(***************************************************************************)
EXTENDS Integers, Sequences, FiniteSets, TLC

(***************************************************************************)
(* Results of calls that may throw                                         *)
(***************************************************************************)
Ok(v) == [ok |-> TRUE, val |-> v]

Throw(msg) == [ok |-> FALSE, err |-> msg]

(***************************************************************************)
(* Platform: strings, btoa / atob, TextEncoder                             *)
(***************************************************************************)
B64 ==
  << "A","B","C","D","E","F","G","H","I","J","K","L","M",
     "N","O","P","Q","R","S","T","U","V","W","X","Y","Z",
     "a","b","c","d","e","f","g","h","i","j","k","l","m",
     "n","o","p","q","r","s","t","u","v","w","x","y","z",
     "0","1","2","3","4","5","6","7","8","9","+","/" >>

IsB64Char(c) == \E i \in 1..64 : B64[i] = c

B64Index(c) == (CHOOSE i \in 1..64 : B64[i] = c) - 1

\* Character code of the characters the model uses (ASCII).
CharCode(c) ==
  IF IsB64Char(c)
  THEN LET i == B64Index(c)
       IN  IF i < 26 THEN 65 + i
           ELSE IF i < 52 THEN 97 + (i - 26)
           ELSE IF i < 62 THEN 48 + (i - 52)
           ELSE IF i = 62 THEN 43 ELSE 47
  ELSE CASE c = "-" -> 45
         [] c = "_" -> 95
         [] c = "." -> 46
         [] c = "=" -> 61
         [] c = " " -> 32
         [] OTHER   -> 33

\* new TextEncoder().encode(str)
TextEncode(str) == [i \in 1..Len(str) |-> CharCode(str[i])]

\* str.replace(/from/g, to) for a one-character pattern
ReplaceAll(str, from, to) ==
  [i \in 1..Len(str) |-> IF str[i] = from THEN to ELSE str[i]]

\* str.replace(/c/g, '')
RemoveAll(str, c) == SelectSeq(str, LAMBDA x : x # c)

RECURSIVE Repeat(_, _)
\* c.repeat(n)
Repeat(c, n) == IF n <= 0 THEN << >> ELSE <<c>> \o Repeat(c, n - 1)

RECURSIVE SplitFrom(_, _, _)
SplitFrom(str, sep, cur) ==
  IF Len(str) = 0 THEN << cur >>
  ELSE IF Head(str) = sep
       THEN << cur >> \o SplitFrom(Tail(str), sep, << >>)
       ELSE SplitFrom(Tail(str), sep, Append(cur, Head(str)))

\* str.split(sep) for a one-character separator
Split(str, sep) == SplitFrom(str, sep, << >>)

RECURSIVE BtoaBytes(_)
BtoaBytes(b) ==
  IF Len(b) = 0 THEN << >>
  ELSE IF Len(b) = 1
  THEN << B64[(b[1] \div 4) + 1], B64[((b[1] % 4) * 16) + 1], "=", "=" >>
  ELSE IF Len(b) = 2
  THEN << B64[(b[1] \div 4) + 1],
          B64[((b[1] % 4) * 16) + (b[2] \div 16) + 1],
          B64[((b[2] % 16) * 4) + 1], "=" >>
  ELSE << B64[(b[1] \div 4) + 1],
          B64[((b[1] % 4) * 16) + (b[2] \div 16) + 1],
          B64[((b[2] % 16) * 4) + (b[3] \div 64) + 1],
          B64[(b[3] % 64) + 1] >> \o BtoaBytes(SubSeq(b, 4, Len(b)))

\* btoa(binaryString): throws when a character is outside Latin-1
Btoa(b) ==
  IF \E i \in 1..Len(b) : b[i] > 255
  THEN Throw("InvalidCharacterError")
  ELSE Ok(BtoaBytes(b))

RECURSIVE AtobChars(_)
AtobChars(s) ==
  IF Len(s) < 2 THEN << >>
  ELSE LET a == B64Index(s[1])
           b == B64Index(s[2])
       IN  IF Len(s) = 2 THEN << (a * 4) + (b \div 16) >>
           ELSE LET c == B64Index(s[3])
                IN  IF Len(s) = 3
                    THEN << (a * 4) + (b \div 16), ((b % 16) * 16) + (c \div 4) >>
                    ELSE LET d == B64Index(s[4])
                         IN  << (a * 4) + (b \div 16),
                                ((b % 16) * 16) + (c \div 4),
                                ((c % 4) * 64) + d >>
                             \o AtobChars(SubSeq(s, 5, Len(s)))

\* atob(str): the forgiving-base64 decode of the platform
Atob(str) ==
  LET s1 == RemoveAll(str, " ")
      n1 == Len(s1)
      s2 == IF n1 % 4 = 0 /\ n1 >= 2 /\ s1[n1] = "=" /\ s1[n1 - 1] = "="
            THEN SubSeq(s1, 1, n1 - 2)
            ELSE IF n1 % 4 = 0 /\ n1 >= 1 /\ s1[n1] = "="
                 THEN SubSeq(s1, 1, n1 - 1)
                 ELSE s1
  IN  IF Len(s2) % 4 = 1 \/ \E i \in 1..Len(s2) : ~IsB64Char(s2[i])
      THEN Throw("InvalidCharacterError")
      ELSE Ok(AtobChars(s2))

(***************************************************************************)
(* JavaScript values that the token code handles besides plain numbers     *)
(***************************************************************************)
Num(n) == [t |-> "number", n |-> n]

NaN == [t |-> "NaN", n |-> 0]

Null == [t |-> "null", n |-> 0]

Undefined == [t |-> "undefined", n |-> 0]

\* truthiness of a number-or-nothing value (the left operand of &&)
Truthy(v) == v.t = "number" /\ v.n # 0

(***************************************************************************)
(* JSON.stringify / JSON.parse on the values a token carries.  The text    *)
(* is abbreviated: "{" followed by one three-byte field per claim          *)
(* (kind, high byte, low byte), or the single byte "n" for null.  The      *)
(* abbreviation keeps what matters: the text is a byte string, distinct    *)
(* values give distinct texts, NaN is written as null, and any other byte  *)
(* string is a SyntaxError.                                                *)
(***************************************************************************)
JsonField(v) ==
  IF v.t = "number"
  THEN IF v.n >= 0
       THEN << 78, (v.n \div 256) % 256, v.n % 256 >>
       ELSE << 45, ((0 - v.n) \div 256) % 256, (0 - v.n) % 256 >>
  ELSE << 90, 0, 0 >>

JsonStringify(value) ==
  IF value.t = "null" THEN << 110 >>
  ELSE << 123 >> \o JsonField(Num(value.userId)) \o JsonField(Num(value.iat))
              \o JsonField(value.exp)

ParseField(text, at) ==
  IF text[at] = 78 THEN Num((text[at + 1] * 256) + text[at + 2])
  ELSE IF text[at] = 45 THEN Num(0 - ((text[at + 1] * 256) + text[at + 2]))
  ELSE Null

IsField(text, at) ==
  \/ text[at] \in {78, 45}
  \/ text[at] = 90 /\ text[at + 1] = 0 /\ text[at + 2] = 0

JsonParse(text) ==
  IF text = << 110 >> THEN Ok(Null)
  ELSE IF /\ Len(text) = 10
          /\ text[1] = 123
          /\ IsField(text, 2) /\ text[2] # 90
          /\ IsField(text, 5) /\ text[5] # 90
          /\ IsField(text, 8)
       THEN Ok([t |-> "object",
                userId |-> ParseField(text, 2).n,
                iat |-> ParseField(text, 5).n,
                exp |-> ParseField(text, 8)])
       ELSE Throw("SyntaxError")

(***************************************************************************)
(* auth/validators.js                                                      *)
(***************************************************************************)
\* JSON.stringify({ alg: 'HS256', typ: 'JWT' }), abbreviated to "{HS}"
HeaderJson == << 123, 72, 83, 125 >>

\* base64UrlEncode(input): string branch and ArrayBuffer branch both end in
\* btoa of the bytes, then + -> -, / -> _, = removed
Base64UrlEncode(input) ==
  LET str == Btoa(input)
  IN  IF ~str.ok THEN str
      ELSE Ok(RemoveAll(ReplaceAll(ReplaceAll(str.val, "+", "-"), "/", "_"), "="))

\* mutant of Repad: "-" and "_" are not translated back
RepadKeepsUrlAlphabet(str) ==
  LET pad == Len(str) % 4
  IN  IF pad # 0 THEN str \o Repeat("=", 4 - pad) ELSE str

\* the padding step shared by base64UrlDecode and base64UrlDecodeString
Repad(str) ==
  LET s == ReplaceAll(ReplaceAll(str, "-", "+"), "_", "/")
      pad == Len(s) % 4
  IN  IF pad # 0 THEN s \o Repeat("=", 4 - pad) ELSE s

\* base64UrlDecode(str): Uint8Array.from(atob(str), charCodeAt)
Base64UrlDecode(str) == Atob(Repad(str))

\* base64UrlDecodeString(str): atob(str)
Base64UrlDecodeString(str) == Atob(Repad(str))

\* HMAC-SHA256 idealised: no two (key, message) pairs share a MAC
Hmac(keyBytes, msgBytes) == << Len(keyBytes) >> \o keyBytes \o msgBytes

\* signData(data, secret)
SignData(data, secret) == Hmac(TextEncode(secret), TextEncode(data))

\* mutant of VerifySignature: the key is not used, only the MAC's length
VerifySignatureAnyKey(data, signature, secret) ==
  Len(signature) = Len(Hmac(TextEncode(secret), TextEncode(data)))

\* verifySignature(data, signature, secret): crypto.subtle.verify recomputes
\* the MAC and compares it with the given bytes
VerifySignature(data, signature, secret) ==
  signature = Hmac(TextEncode(secret), TextEncode(data))

\* createPayload(userId, expiresInSeconds = 7200) at time now
DefaultExpiry == 7200

\* mutant of CreatePayload: the lifetime is not added
CreatePayloadNoLifetime(userId, expiresInSeconds, now) ==
  [t |-> "object", userId |-> userId, iat |-> now, exp |-> Num(now)]

CreatePayload(userId, expiresInSeconds, now) ==
  LET e == IF expiresInSeconds.t = "undefined" THEN Num(DefaultExpiry)
           ELSE expiresInSeconds
  IN  [t |-> "object", userId |-> userId, iat |-> now,
       exp |-> IF e.t = "number" THEN Num(now + e.n)
               ELSE IF e.t = "null" THEN Num(now) ELSE NaN]

\* generateJWT(payload, secret)
GenerateJWT(payload, secret) ==
  LET headerB64 == Base64UrlEncode(HeaderJson)
      payloadB64 == Base64UrlEncode(JsonStringify(payload))
  IN  IF ~headerB64.ok THEN headerB64
      ELSE IF ~payloadB64.ok THEN payloadB64
      ELSE LET data == headerB64.val \o << "." >> \o payloadB64.val
               signatureB64 == Base64UrlEncode(SignData(data, secret))
           IN  IF ~signatureB64.ok THEN signatureB64
               ELSE Ok(data \o << "." >> \o signatureB64.val)

\* mutant of HasThreeParts: extra parts are tolerated
HasAtLeastThreeParts(parts) == Len(parts) >= 3

\* the format test of validateJWT: parts.length !== 3 is rejected
HasThreeParts(parts) == Len(parts) = 3

\* mutant of Expired: the second of the expiry itself counts as expired
ExpiredAtExpiry(payload, now) == Truthy(payload.exp) /\ payload.exp.n <= now

\* mutant of Expired: the expiry is not checked
ExpiredNever(payload, now) == FALSE

\* the expiry test of validateJWT: payload.exp && payload.exp < now
Expired(payload, now) == Truthy(payload.exp) /\ payload.exp.n < now

\* mutant of ValidateJWT: the payload is decoded and its expiry checked
\* before the signature is verified
ValidateJWTExpiryFirst(token, secret, now) ==
  LET parts == Split(token, ".")
  IN  IF ~HasThreeParts(parts) THEN Throw("Invalid token format")
      ELSE
      LET text == Base64UrlDecodeString(parts[2])
      IN  IF ~text.ok THEN text
          ELSE
          LET payload == JsonParse(text.val)
          IN  IF ~payload.ok THEN payload
              ELSE IF payload.val.t = "null" THEN Throw("TypeError")
              ELSE IF Expired(payload.val, now) THEN Throw("Token expired")
              ELSE
              LET data == parts[1] \o << "." >> \o parts[2]
                  signature == Base64UrlDecode(parts[3])
              IN  IF ~signature.ok THEN signature
                  ELSE IF ~VerifySignature(data, signature.val, secret)
                  THEN Throw("Invalid signature")
                  ELSE Ok(payload.val)

\* validateJWT(token, secret) at time now
ValidateJWT(token, secret, now) ==
  LET parts == Split(token, ".")
  IN  IF ~HasThreeParts(parts) THEN Throw("Invalid token format")
      ELSE
      LET data == parts[1] \o << "." >> \o parts[2]
          signature == Base64UrlDecode(parts[3])
      IN  IF ~signature.ok THEN signature
          ELSE IF ~VerifySignature(data, signature.val, secret)
          THEN Throw("Invalid signature")
          ELSE
          LET text == Base64UrlDecodeString(parts[2])
          IN  IF ~text.ok THEN text
              ELSE
              LET payload == JsonParse(text.val)
              IN  IF ~payload.ok THEN payload
                  ELSE IF payload.val.t = "null" THEN Throw("TypeError")
                  ELSE IF Expired(payload.val, now) THEN Throw("Token expired")
                  ELSE Ok(payload.val)

(***************************************************************************)
(* HTTP layer.  Methods, paths, route patterns and header values are       *)
(* strings too, written as sequences of lexemes ("/" and " " are lexemes   *)
(* of their own, a word between them is one lexeme).  A string-valued      *)
(* field that may be absent is Str(s) or Undefined.                        *)
(***************************************************************************)
Str(s) == [t |-> "string", s |-> s]

\* truthiness of a string-or-undefined value
TruthyStr(v) == v.t = "string" /\ Len(v.s) > 0

\* utils/response.js: errorResponse(message, status); a message is the
\* sequence of the pieces it is concatenated from
ErrorResponse(message, status) ==
  [status |-> status, body |-> [kind |-> "error", error |-> message]]

\* utils/response.js: successResponse(data, status)
SuccessResponse(data, status) == [status |-> status, body |-> data]

\* utils/errors.js: the status carried by each error class
ValidationErrorStatus == 400

UnauthorizedErrorStatus == 401

NotFoundStatus == 404

InternalErrorStatus == 500

\* utils/errors.js: toAPIError(error) for an error that is not an API error
ToAPIError(err) ==
  [message |-> << "Internal server error" >>, status |-> InternalErrorStatus]

\* utils/response.js: handleCORS(allowedOrigins)
HandleCORS == [status |-> 204, body |-> [kind |-> "empty"]]

\* utils/validation.js: validateLoginRequest(body)
ValidateLoginRequest(body) ==
  IF TruthyStr(body.username) /\ TruthyStr(body.password)
  THEN [valid |-> TRUE, error |-> << >>]
  ELSE [valid |-> FALSE, error |-> << "Username and password are required" >>]

\* request.json(): the body can be read once; a second read, an absent body
\* and a body that is not JSON all reject
RequestJson(request) ==
  IF request.bodyUsed THEN Throw("TypeError")
  ELSE IF request.body.kind # "json" THEN Throw("SyntaxError")
  ELSE Ok(request.body)

\* the request after one of its body readers ran
Consumed(request) == [request EXCEPT !.bodyUsed = TRUE]

\* SHA-256 hex digest idealised: no two texts share a digest
Sha256Hex(text) == << "#" >> \o text

(***************************************************************************)
(* auth/middleware.js                                                      *)
(***************************************************************************)
LoginPath == << "/", "login" >>

SessionPath == << "/", "session" >>

Authorized(user) == [kind |-> "authorized", authorized |-> TRUE, user |-> user]

Rejected(response) ==
  [kind |-> "response", authorized |-> FALSE, response |-> response]

RECURSIVE TrimStart(_)
\* the string without its leading blanks
TrimStart(str) ==
  IF Len(str) > 0 /\ Head(str) = " " THEN TrimStart(Tail(str)) ELSE str

RECURSIVE TrimEnd(_)
\* the string without its trailing blanks
TrimEnd(str) ==
  IF Len(str) > 0 /\ str[Len(str)] = " "
  THEN TrimEnd(SubSeq(str, 1, Len(str) - 1))
  ELSE str

\* mutant of HeadersGet: the field value is handed over as it was sent
HeadersGetRaw(value) == value

\* request.headers.get(name) for a header sent with the given field value:
\* the value without leading and trailing blanks, nothing for an absent
\* header
HeadersGet(value) ==
  IF value.t = "string" THEN Str(TrimEnd(TrimStart(value.s))) ELSE value

\* authHeader.startsWith("Bearer ")
StartsWithBearer(h) == Len(h) >= 2 /\ h[1] = "Bearer" /\ h[2] = " "

\* mutant of VerifyToken: only the three errors validateJWT throws by name
\* are caught, any other error escapes
VerifyTokenNamedErrorsOnly(request, env, now) ==
  LET authHeader == HeadersGet(request.authorization)
  IN  IF ~TruthyStr(authHeader) \/ ~StartsWithBearer(authHeader.s)
      THEN Rejected(ErrorResponse(
             << "Unauthorized - Missing or invalid authorization header" >>, 401))
      ELSE LET token == SubSeq(authHeader.s, 3, Len(authHeader.s))
               payload == ValidateJWT(token, env.JWT_SECRET, now)
           IN  IF payload.ok THEN Authorized(payload.val)
               ELSE IF payload.err \in {"Invalid token format",
                                        "Invalid signature", "Token expired"}
               THEN Rejected(ErrorResponse(<< "Unauthorized - ", payload.err >>,
                                            401))
               ELSE [kind |-> "raised", authorized |-> FALSE, err |-> payload.err]

\* verifyToken(request, env) at time now
VerifyToken(request, env, now) ==
  LET authHeader == HeadersGet(request.authorization)
  IN  IF ~TruthyStr(authHeader) \/ ~StartsWithBearer(authHeader.s)
      THEN Rejected(ErrorResponse(
             << "Unauthorized - Missing or invalid authorization header" >>, 401))
      ELSE LET token == SubSeq(authHeader.s, 3, Len(authHeader.s))
               payload == ValidateJWT(token, env.JWT_SECRET, now)
           IN  IF payload.ok THEN Authorized(payload.val)
               ELSE Rejected(ErrorResponse(<< "Unauthorized - ", payload.err >>,
                                            401))

\* mutant of Authenticate: every listed public endpoint is let through
AuthenticateListedEndpoints(request, env, now) ==
  IF request.pathname \in {LoginPath, SessionPath} THEN Authorized(Null)
  ELSE VerifyToken(request, env, now)

\* authenticate(request, env) at time now
Authenticate(request, env, now) ==
  LET pathname == request.pathname
      isPublicEndpoint == \E endpoint \in {LoginPath, SessionPath} :
                             pathname = endpoint
  IN  IF pathname = SessionPath THEN VerifyToken(request, env, now)
      ELSE IF isPublicEndpoint THEN Authorized(Null)
      ELSE VerifyToken(request, env, now)

\* the body of validateCredentials after the request body { username,
\* password } was read
CompareCredentials(body, env) ==
  IF ~TruthyStr(body.username) \/ ~TruthyStr(body.password)
  THEN [valid |-> FALSE, userId |-> 0, fault |-> "none", compared |-> Undefined]
  ELSE IF body.username # env.ADMIN_USERNAME
  THEN [valid |-> FALSE, userId |-> 0, fault |-> "none", compared |-> Undefined]
  ELSE IF body.password = env.ADMIN_PASSWORD
  THEN [valid |-> TRUE, userId |-> 1, fault |-> "none",
        compared |-> body.password]
  ELSE [valid |-> FALSE, userId |-> 0, fault |-> "none",
        compared |-> body.password]

\* validateCredentials(request, env): besides the result, the exception its
\* catch swallowed ("none" if none was raised) and the value it compared
\* with env.ADMIN_PASSWORD (Undefined if the comparison was not reached)
ValidateCredentials(request, env) ==
  LET body == RequestJson(request)
  IN  IF ~body.ok
      THEN [valid |-> FALSE, userId |-> 0, fault |-> body.err,
            compared |-> Undefined]
      ELSE CompareCredentials(body.val, env)

(***************************************************************************)
(* handlers/auth.js                                                        *)
(***************************************************************************)
Digits == << "0", "1", "2", "3", "4", "5", "6", "7", "8", "9" >>

IsDigit(c) == \E i \in 1..10 : Digits[i] = c

DigitValue(c) == (CHOOSE i \in 1..10 : Digits[i] = c) - 1

RECURSIVE LeadingDigits(_, _)
\* value of the longest prefix of digits, continuing from acc
LeadingDigits(chars, acc) ==
  IF Len(chars) = 0 \/ ~IsDigit(Head(chars)) THEN acc
  ELSE LeadingDigits(Tail(chars), (acc * 10) + DigitValue(Head(chars)))

\* parseInt(str): optional sign, then the leading digits; NaN without a digit
ParseInt(str) ==
  LET neg == Len(str) > 0 /\ Head(str) = "-"
      rest == IF Len(str) > 0 /\ Head(str) \in {"-", "+"} THEN Tail(str) ELSE str
  IN  IF Len(rest) = 0 \/ ~IsDigit(Head(rest)) THEN NaN
      ELSE IF neg THEN Num(0 - LeadingDigits(rest, 0))
      ELSE Num(LeadingDigits(rest, 0))

\* parseInt(env.JWT_EXPIRY || '7200')
ExpirySeconds(env) ==
  ParseInt(IF TruthyStr(env.JWT_EXPIRY) THEN env.JWT_EXPIRY.s
           ELSE << "7", "2", "0", "0" >>)

NoToken == [issuedToken |-> FALSE]

\* handleLogin once generateJWT(payload, env.JWT_SECRET) has returned or
\* thrown
LoginToken(token, payload, expirySeconds, authResult, env, now) ==
  IF ~token.ok
  THEN [response |-> ErrorResponse(<< "Internal server error" >>, 500),
        token |-> NoToken, fault |-> token.err,
        compared |-> authResult.compared]
  ELSE [response |-> SuccessResponse(
                       [kind |-> "login", token |-> token.val,
                        expiresIn |-> expirySeconds], 200),
        token |-> [issuedToken |-> TRUE, token |-> token.val,
                   payload |-> payload, secret |-> env.JWT_SECRET,
                   at |-> now],
        fault |-> "none", compared |-> authResult.compared]

\* handleLogin once the payload of the token has been created
LoginPayload(payload, expirySeconds, authResult, env, now) ==
  LoginToken(GenerateJWT(payload, env.JWT_SECRET), payload, expirySeconds,
             authResult, env, now)

\* handleLogin once validateCredentials has returned authResult
LoginWith(authResult, env, now) ==
  IF ~authResult.valid
  THEN [response |-> ErrorResponse(<< "Invalid credentials" >>,
                                   UnauthorizedErrorStatus),
        token |-> NoToken, fault |-> authResult.fault,
        compared |-> authResult.compared]
  ELSE LoginPayload(CreatePayload(authResult.userId, ExpirySeconds(env), now),
                    ExpirySeconds(env), authResult, env, now)

\* handleLogin(request, env, ctx, params, user, logger) at time now: the
\* response, the token it issued if it issued one, and the exception that
\* was raised on the way other than the two API errors it throws itself
HandleLogin(request, env, now) ==
  LET body == RequestJson(request)
  IN  IF ~body.ok
      THEN [response |-> ErrorResponse(<< "Internal server error" >>, 500),
            token |-> NoToken, fault |-> body.err, compared |-> Undefined]
      ELSE
      LET validation == ValidateLoginRequest(body.val)
      IN  IF ~validation.valid
          THEN [response |-> ErrorResponse(validation.error, ValidationErrorStatus),
                token |-> NoToken, fault |-> "none", compared |-> Undefined]
          ELSE
          LoginWith(ValidateCredentials(Consumed(request), env), env, now)

\* handleSessionValidation(request, env, ctx, params, user, logger)
HandleSessionValidation(user) ==
  IF user.t = "null"
  THEN ErrorResponse(<< "Invalid or missing token" >>, UnauthorizedErrorStatus)
  ELSE IF user.exp.t \notin {"number", "null"}
  THEN ErrorResponse(<< "Internal server error" >>, 500)
  ELSE SuccessResponse([kind |-> "session", valid |-> TRUE,
                        userId |-> user.userId, expiresAt |-> user.exp], 200)

(***************************************************************************)
(* services/AuthService.js, in its two versions: the one that checks the   *)
(* single administrator of the configuration, and the one that looks the   *)
(* user up in the store.  login returns {token, expiresIn} or throws; the  *)
(* outcome also records the value that was compared with the stored        *)
(* password (Undefined if the comparison was not reached).                 *)
(***************************************************************************)
\* hashPassword(password, salt): hex SHA-256 of password + salt
HashPassword(password, salt) ==
  Sha256Hex(password \o (IF salt.t = "string" THEN salt.s
                         ELSE << "undefined" >>))

\* throw new <name>(message), with the status the error class carries
Thrown(name, message, status, compared) ==
  [kind |-> "thrown", name |-> name, message |-> message, status |-> status,
   compared |-> compared]

\* the tail of login shared by both versions: parseInt(env.JWT_EXPIRY ||
\* "7200"), createPayload, generateJWT, return {token, expiresIn}
LoginTokens(userId, env, now, compared) ==
  LET expirySeconds == ExpirySeconds(env)
      payload == CreatePayload(userId, expirySeconds, now)
      token == GenerateJWT(payload, env.JWT_SECRET)
  IN  IF ~token.ok THEN Thrown(token.err, << token.err >>, 500, compared)
      ELSE [kind |-> "returned", token |-> token.val,
            expiresIn |-> expirySeconds, payload |-> payload,
            compared |-> compared]

\* mutant of ConfigAuthServiceLogin: an unknown user name is reported as such
ConfigLoginNamesUnknownUser(credentials, env, now) ==
  LET validation == ValidateLoginRequest(credentials)
  IN  IF ~validation.valid
      THEN Thrown("ValidationError", validation.error, ValidationErrorStatus,
                  Undefined)
      ELSE IF credentials.username # env.ADMIN_USERNAME
      THEN Thrown("UnauthorizedError", << "Unknown user" >>,
                  UnauthorizedErrorStatus, Undefined)
      ELSE
      LET hashedPassword == Str(HashPassword(credentials.password.s,
                                             env.PASSWORD_SALT))
      IN  IF hashedPassword # env.ADMIN_PASSWORD
          THEN Thrown("UnauthorizedError", << "Invalid credentials" >>,
                      UnauthorizedErrorStatus, hashedPassword)
          ELSE LoginTokens(1, env, now, hashedPassword)

\* AuthService.login(credentials, env, logger) at time now, the version
\* that checks env.ADMIN_USERNAME and env.ADMIN_PASSWORD
ConfigAuthServiceLogin(credentials, env, now) ==
  LET validation == ValidateLoginRequest(credentials)
  IN  IF ~validation.valid
      THEN Thrown("ValidationError", validation.error, ValidationErrorStatus,
                  Undefined)
      ELSE IF credentials.username # env.ADMIN_USERNAME
      THEN Thrown("UnauthorizedError", << "Invalid credentials" >>,
                  UnauthorizedErrorStatus, Undefined)
      ELSE
      LET hashedPassword == Str(HashPassword(credentials.password.s,
                                             env.PASSWORD_SALT))
      IN  IF hashedPassword # env.ADMIN_PASSWORD
          THEN Thrown("UnauthorizedError", << "Invalid credentials" >>,
                      UnauthorizedErrorStatus, hashedPassword)
          ELSE LoginTokens(1, env, now, hashedPassword)

\* AuthRepository.findUserByUsername(username): the rows with that name
FindUserByUsername(users, username) == {u \in users : u.username = username}

\* mutant of StoreAuthServiceLogin: the password is compared as submitted,
\* without hashing it
StoreLoginPlainPassword(credentials, env, users, now) ==
  LET validation == ValidateLoginRequest(credentials)
  IN  IF ~validation.valid
      THEN Thrown("ValidationError", validation.error, ValidationErrorStatus,
                  Undefined)
      ELSE
      LET found == FindUserByUsername(users, credentials.username)
      IN  IF found = {}
          THEN Thrown("UnauthorizedError", << "Invalid credentials" >>,
                      UnauthorizedErrorStatus, Undefined)
          ELSE
          LET user == CHOOSE u \in found : TRUE
          IN  IF credentials.password # user.password
              THEN Thrown("UnauthorizedError", << "Invalid credentials" >>,
                          UnauthorizedErrorStatus, credentials.password)
              ELSE LoginTokens(user.id, env, now, credentials.password)

\* AuthService.login(credentials, env, logger) at time now, the version
\* that reads the user from the store
StoreAuthServiceLogin(credentials, env, users, now) ==
  LET validation == ValidateLoginRequest(credentials)
  IN  IF ~validation.valid
      THEN Thrown("ValidationError", validation.error, ValidationErrorStatus,
                  Undefined)
      ELSE
      LET found == FindUserByUsername(users, credentials.username)
      IN  IF found = {}
          THEN Thrown("UnauthorizedError", << "Invalid credentials" >>,
                      UnauthorizedErrorStatus, Undefined)
          ELSE
          LET user == CHOOSE u \in found : TRUE
              hashedPassword == Str(HashPassword(credentials.password.s,
                                                 env.PASSWORD_SALT))
          IN  IF hashedPassword # user.password
              THEN Thrown("UnauthorizedError", << "Invalid credentials" >>,
                          UnauthorizedErrorStatus, hashedPassword)
              ELSE LoginTokens(user.id, env, now, hashedPassword)

(***************************************************************************)
(* router.js                                                               *)
(***************************************************************************)
\* the route table as built at module load
InitialRoutes ==
  << [pattern |-> << "POST", " ", "/", "login" >>, handler |-> "handleLogin"],
     [pattern |-> << "GET", " ", "/", "session" >>,
      handler |-> "handleSessionValidation"],
     [pattern |-> << "POST", " ", "/", "admin", "/", "posts" >>,
      handler |-> "handleCreatePost"],
     [pattern |-> << "PUT", " ", "/", "admin", "/", "posts", "/", ":", "postId" >>,
      handler |-> "handleUpdatePost"],
     [pattern |-> << "DELETE", " ", "/", "admin", "/", "posts", "/", ":", "postId" >>,
      handler |-> "handleDeletePost"],
     [pattern |-> << "POST", " ", "/", "admin", "/", "images" >>,
      handler |-> "handleImageUpload"],
     [pattern |-> << "DELETE", " ", "/", "admin", "/", "comments", "/", ":",
                     "commentId" >>,
      handler |-> "handleDeleteComment"] >>

\* str.split("/").filter(Boolean)
Segments(str) == SelectSeq(Split(str, "/"), LAMBDA part : Len(part) > 0)

\* decodeURIComponent(part): "%41" is an escape for "A", "%zz" is not an
\* escape at all
DecodeURIComponent(part) ==
  IF \E i \in 1..Len(part) : part[i] = "%zz" THEN Throw("URIError")
  ELSE Ok([i \in 1..Len(part) |-> IF part[i] = "%41" THEN "A" ELSE part[i]])

\* params[paramName] = value
SetParam(params, name, value) ==
  {q \in params : q.name # name} \cup {[name |-> name, value |-> value]}

RECURSIVE MatchFrom(_, _, _, _)
\* the loop of matchPattern from index i on
MatchFrom(patternParts, pathParts, i, params) ==
  IF i > Len(patternParts) THEN [kind |-> "match", params |-> params]
  ELSE IF Head(patternParts[i]) = ":"
  THEN LET value == DecodeURIComponent(pathParts[i])
       IN  IF ~value.ok THEN [kind |-> "throw", err |-> value.err]
           ELSE MatchFrom(patternParts, pathParts, i + 1,
                          SetParam(params, Tail(patternParts[i]), value.val))
  ELSE IF patternParts[i] # pathParts[i] THEN [kind |-> "null"]
  ELSE MatchFrom(patternParts, pathParts, i + 1, params)

\* matchPattern(pattern, path)
MatchPattern(pattern, path) ==
  LET patternParts == Segments(pattern)
      pathParts == Segments(path)
  IN  IF Len(patternParts) # Len(pathParts) THEN [kind |-> "null"]
      ELSE MatchFrom(patternParts, pathParts, 1, {})

RECURSIVE FindFrom(_, _, _, _)
\* the loop of findRoute from table index i on
FindFrom(table, i, method, pathname) ==
  IF i > Len(table) THEN [kind |-> "null"]
  ELSE LET parts == Split(table[i].pattern, " ")
           routeMethod == parts[1]
       IN  IF routeMethod # method THEN FindFrom(table, i + 1, method, pathname)
           ELSE IF Len(parts) < 2 THEN [kind |-> "throw", err |-> "TypeError"]
           ELSE LET match == MatchPattern(parts[2], pathname)
                IN  IF match.kind = "throw" THEN match
                    ELSE IF match.kind = "match"
                    THEN [kind |-> "match", handler |-> table[i].handler,
                          params |-> match.params]
                    ELSE FindFrom(table, i + 1, method, pathname)

\* findRoute(method, pathname) over the route table
FindRoute(table, method, pathname) == FindFrom(table, 1, method, pathname)

\* The post, image and comment handlers talk to the store, which this part
\* of the model leaves open: each answers with one of the statuses its code
\* can return, the store deciding which.
StoreStatuses(handler) ==
  CASE handler = "handleCreatePost" -> {200, 400, 500}
    [] handler = "handleImageUpload" -> {200, 400, 500}
    [] OTHER -> {200, 400, 404, 500}

StoreResponse(status) ==
  IF status = 200 THEN SuccessResponse([kind |-> "data"], 200)
  ELSE ErrorResponse(<< "store" >>, status)

\* match.handler(request, env, ctx, match.params, user, routeLogger)
CallHandler(handler, request, env, user, now, status) ==
  CASE handler = "handleLogin" -> HandleLogin(request, env, now)
    [] handler = "handleSessionValidation" ->
         [response |-> HandleSessionValidation(user), token |-> NoToken,
          fault |-> "none", compared |-> Undefined]
    [] OTHER -> [response |-> StoreResponse(status), token |-> NoToken,
                 fault |-> IF status = 500 THEN "Error" ELSE "none",
                 compared |-> Undefined]

\* the outcome of router once the matched handler has returned result
Routed(handler, user, result) ==
  [response |-> result.response, handler |-> handler, user |-> user,
   token |-> result.token, fault |-> result.fault,
   compared |-> result.compared]

\* router(request, env, ctx, user, logger): the response, the handler that
\* was invoked ("none" if none was), the token issued, if any, and the
\* exception raised while routing or inside the handler, if any
Router(table, request, env, user, now, status) ==
  LET match == FindRoute(table, request.method, request.pathname)
  IN  IF match.kind = "throw"
      THEN [response |-> ErrorResponse(ToAPIError(match.err).message,
                                       ToAPIError(match.err).status),
            handler |-> "none", user |-> user, token |-> NoToken,
            fault |-> match.err, compared |-> Undefined]
      ELSE IF match.kind = "null"
      THEN [response |-> ErrorResponse(<< "Not Found" >>, NotFoundStatus),
            handler |-> "none", user |-> user, token |-> NoToken,
            fault |-> "none", compared |-> Undefined]
      ELSE Routed(match.handler, user,
                  CallHandler(match.handler, request, env, user, now, status))

(***************************************************************************)
(* index.js                                                                *)
(***************************************************************************)
\* fetch(request, env, ctx): a preflight is answered at once, anything else
\* goes to the router with user = null
WorkerFetch(table, request, env, now, status) ==
  IF request.method = << "OPTIONS" >>
  THEN [response |-> HandleCORS, handler |-> "none", user |-> Null,
        token |-> NoToken, fault |-> "none", compared |-> Undefined]
  ELSE Router(table, request, env, Null, now, status)

(***************************************************************************)
(* State                                                                   *)
(***************************************************************************)
\* now:    Math.floor(Date.now() / 1000)
\* env:    the worker's configuration bindings
\* routes: the route table of router.js
\* issued: the tokens the token service has produced so far
\* last:   the call in progress and its outcome, Idle between calls
\* posts:  the rows of the posts table (id and slug)
\* calls:  the post requests in progress, each at one of its awaits
\* slugUnique: whether the posts table carries a unique index on slug
\* store:  the posts, tags, post_tags and comments tables as the post and
\*         comment services see them
VARIABLES now, env, routes, issued, last, posts, calls, slugUnique, store

vars == << now, env, routes, issued, last, posts, calls, slugUnique, store >>

\* bounds of the model
Epoch == 10

MaxTick == 2

MaxIssued == 1

MaxCalls == 2

\* a request slot with no request in it
NoCall == [pc |-> "free"]

\* the tables with no row in them
NoStore == [posts |-> {}, tags |-> {}, postTags |-> {}, comments |-> {}]

\* configuration values
K1 == << "k", "1" >>

K2 == << "k", "2" >>

Secrets == {K1, K2}

AdminName == << "admin" >>

AdminPassword == << "pw" >>

Salt == << "salt" >>

ExpiryConfigs == {Undefined, Str(<< "3" >>)}

Envs ==
  {[JWT_SECRET |-> K1,
    ADMIN_USERNAME |-> Str(AdminName),
    ADMIN_PASSWORD |-> Str(Sha256Hex(AdminPassword \o Salt)),
    PASSWORD_SALT |-> Str(Salt),
    JWT_EXPIRY |-> e] : e \in ExpiryConfigs}

\* inputs
UserIds == {1, 2}

Lifetimes == {Num(0 - 1), Num(1), Undefined}

TokenLifetimes == Lifetimes \cup {Num(0), Num(2)}

Methods == {<< "GET" >>, << "POST" >>, << "PUT" >>, << "DELETE" >>, << "OPTIONS" >>}

Paths ==
  {LoginPath, SessionPath,
   << "/", "admin", "/", "posts" >>,
   << "/", "admin", "/", "posts", "/", "42" >>,
   << "/", "login", "/" >>,
   << "/", "nope" >>}

\* further paths, requested without credentials: a parameter segment that
\* is a malformed escape, one that is a well-formed escape, a literal in
\* another case, and one segment too many
ProbePaths ==
  {<< "/", "admin", "/", "posts", "/", "%zz" >>,
   << "/", "admin", "/", "posts", "/", "%41" >>,
   << "/", "Login" >>,
   << "/", "admin", "/", "posts", "/", "42", "/", "x" >>}

NoBody == [kind |-> "none", username |-> Undefined, password |-> Undefined]

Bodies ==
  {NoBody, [kind |-> "invalid", username |-> Undefined, password |-> Undefined]}
  \cup {[kind |-> "json", username |-> u, password |-> p] :
          u \in {Undefined, Str(AdminName), Str(<< "eve" >>)},
          p \in {Undefined, Str(<< >>), Str(AdminPassword), Str(<< "bad" >>),
                 Str(Sha256Hex(AdminPassword \o Salt))}}

\* a token put together by someone who holds the secret: the given payload
\* segment under the usual header, correctly signed
SignedOver(payloadB64, secret) ==
  LET data == Base64UrlEncode(HeaderJson).val \o << "." >> \o payloadB64
  IN  data \o << "." >> \o Base64UrlEncode(SignData(data, secret)).val

\* the first two segments of a token, the signature dropped
WithoutSignature(token) ==
  LET parts == Split(token, ".") IN parts[1] \o << "." >> \o parts[2]

\* a token whose payload is replaced by one that expires much later, the
\* signature kept
Extended(token, payload) ==
  LET parts == Split(token, ".")
      forged == [payload EXCEPT !.exp = Num(payload.iat + DefaultExpiry)]
  IN  parts[1] \o << "." >> \o Base64UrlEncode(JsonStringify(forged)).val
      \o << "." >> \o parts[3]

\* token strings a client may present
TokenInputs ==
  {<< >>, << "a", "b", "c" >>, << "a", ".", "b" >>,
   << "a", ".", "b", ".", "!" >>,
   << "a", ".", "b", ".", "!", ".", "c" >>,
   << "Q", "Q", ".", "Q", "Q", ".", "Q", "Q" >>,
   SignedOver(Base64UrlEncode(<< 1, 2, 3 >>).val, K1),
   SignedOver(<< "!", "!" >>, K1),
   SignedOver(Base64UrlEncode(JsonStringify(Null)).val, K1)}
  \cup {i.token : i \in issued}
  \cup {WithoutSignature(i.token) : i \in issued}
  \cup {i.token \o << ".", "A" >> : i \in issued}
  \cup {Extended(i.token, i.payload) : i \in issued}

Bearer(token) == Str(<< "Bearer", " " >> \o token)

\* Authorization field values as a client sends them, or no such header
HeaderInputs ==
  {Undefined, Str(<< "Basic", " ", "x" >>), Str(<< "Bearer" >>),
   Str(<< "Bearer", " " >>)}
  \cup {Bearer(t) : t \in TokenInputs \ {<< >>}}

RequestInputs ==
  {[method |-> m, pathname |-> p, authorization |-> h, body |-> NoBody,
    bodyUsed |-> FALSE] : m \in Methods, p \in Paths, h \in HeaderInputs}
  \cup
  {[method |-> << "POST" >>, pathname |-> p, authorization |-> Undefined,
    body |-> b, bodyUsed |-> FALSE] :
      p \in {LoginPath, << "/", "login", "/" >>}, b \in Bodies}
  \cup
  {[method |-> m, pathname |-> p, authorization |-> Undefined, body |-> NoBody,
    bodyUsed |-> FALSE] : m \in Methods, p \in ProbePaths}

Idle == [op |-> "idle"]

(***************************************************************************)
(* Behaviour                                                               *)
(***************************************************************************)
Init ==
  /\ now = Epoch
  /\ env \in Envs
  /\ routes = InitialRoutes
  /\ issued = {}
  /\ last = Idle
  /\ posts = {}
  /\ calls = [c \in 1..MaxCalls |-> NoCall]
  /\ slugUnique = FALSE
  /\ store = NoStore

\* one second passes
Tick ==
  /\ last = Idle
  /\ now < Epoch + MaxTick
  /\ now' = now + 1
  /\ UNCHANGED << env, routes, issued, last, posts, calls, slugUnique, store >>

\* the token service issues a token: createPayload, then generateJWT
Issue(userId, lifetime, secret) ==
  /\ last = Idle
  /\ LET payload == CreatePayload(userId, lifetime, now)
         token == GenerateJWT(payload, secret)
     IN  /\ token.ok
         /\ issued' = issued \cup
              {[token |-> token.val, payload |-> payload, secret |-> secret,
                userId |-> userId, lifetime |-> lifetime, at |-> now]}
         /\ last' = [op |-> "issue", token |-> token.val, payload |-> payload,
                     secret |-> secret, lifetime |-> lifetime]
  /\ UNCHANGED << now, env, routes, posts, calls, slugUnique, store >>

\* mutant of Validate: a token is refused once another token has been
\* issued after it
ValidateLatestOnly(token, secret) ==
  /\ last = Idle
  /\ last' = [op |-> "validate", token |-> token, secret |-> secret,
              result |-> IF \E i, j \in issued :
                              i.token = token /\ j.token # token /\ j.at >= i.at
                         THEN Throw("Token revoked")
                         ELSE ValidateJWT(token, secret, now)]
  /\ UNCHANGED << now, env, routes, issued, posts, calls, slugUnique, store >>

\* the token service validates a token: validateJWT
Validate(token, secret) ==
  /\ last = Idle
  /\ last' = [op |-> "validate", token |-> token, secret |-> secret,
              result |-> ValidateJWT(token, secret, now)]
  /\ UNCHANGED << now, env, routes, issued, posts, calls, slugUnique, store >>

\* the middleware is applied to a request: authenticate
Gate(request) ==
  /\ last = Idle
  /\ last' = [op |-> "authenticate", request |-> request,
              result |-> Authenticate(request, env, now)]
  /\ UNCHANGED << now, env, routes, issued, posts, calls, slugUnique, store >>

\* what a served request leaves behind: its outcome, and the token it
\* issued among the issued ones
Served(request, r) ==
  /\ last' = [op |-> "fetch", request |-> request,
              response |-> r.response, handler |-> r.handler,
              user |-> r.user, fault |-> r.fault, compared |-> r.compared]
  /\ issued' = IF r.token.issuedToken
               THEN issued \cup
                      {[token |-> r.token.token, payload |-> r.token.payload,
                        secret |-> r.token.secret,
                        userId |-> r.token.payload.userId,
                        lifetime |-> ExpirySeconds(env), at |-> now]}
               ELSE issued

\* the worker serves a request: fetch
Fetch(request, status) ==
  /\ last = Idle
  /\ Served(request, WorkerFetch(routes, request, env, now, status))
  /\ UNCHANGED << now, env, routes, posts, calls, slugUnique, store >>

\* the outcome is handed back and the per-call state is dropped
Return ==
  /\ last # Idle
  /\ last' = Idle
  /\ UNCHANGED << now, env, routes, issued, posts, calls, slugUnique, store >>

\* the store-decided statuses that matter for a request: those of the store
\* handler it is routed to, if it is routed to one
StatusInputs(request) ==
  LET match == FindRoute(routes, request.method, request.pathname)
  IN  IF match.kind = "match"
         /\ match.handler \notin {"handleLogin", "handleSessionValidation"}
      THEN StoreStatuses(match.handler)
      ELSE {200}

\* authenticate does not read the method
GateInputs == {r \in RequestInputs : r.method \in {<< "GET" >>, << "POST" >>}}

\* A new call starts only between calls.  The worker's tokens are issued
\* for the administrator under the configured secret.
IssueAdmin ==
  /\ last = Idle
  /\ Cardinality(issued) < MaxIssued
  /\ \E l \in Lifetimes : Issue(1, l, env.JWT_SECRET)

GateAny == last = Idle /\ \E r \in GateInputs : Gate(r)

FetchAny ==
  last = Idle /\ \E r \in RequestInputs : \E s \in StatusInputs(r) : Fetch(r, s)

Next ==
  \/ Tick
  \/ IssueAdmin
  \/ GateAny
  \/ FetchAny
  \/ Return

Spec == Init /\ [][Next]_vars

(***************************************************************************)
(* The login paths on their own: handleLogin, validateCredentials and the  *)
(* two versions of AuthService.login, for any credentials and any          *)
(* configured lifetime.                                                    *)
(***************************************************************************)
\* values of JWT_EXPIRY: unset, empty, "3", "0", "-5", "abc"
LoginExpiryConfigs ==
  {Undefined, Str(<< >>), Str(<< "3" >>), Str(<< "0" >>), Str(<< "-", "5" >>),
   Str(<< "a", "b", "c" >>)}

LoginEnvs ==
  {[JWT_SECRET |-> K1,
    ADMIN_USERNAME |-> Str(AdminName),
    ADMIN_PASSWORD |-> Str(Sha256Hex(AdminPassword \o Salt)),
    PASSWORD_SALT |-> Str(Salt),
    JWT_EXPIRY |-> e] : e \in LoginExpiryConfigs}

\* the users table that the store-based service reads
UserTable ==
  {[id |-> 1, username |-> Str(AdminName),
    password |-> Str(Sha256Hex(AdminPassword \o Salt))],
   [id |-> 2, username |-> Str(<< "bob" >>),
    password |-> Str(Sha256Hex(<< "pw2" >> \o Salt))]}

\* parsed login bodies
Credentials == {b \in Bodies : b.kind = "json"}

LoginPaths == {"handleLogin", "validateCredentials", "config", "store"}

\* the POST /login request that carries the credentials
LoginRequest(credentials) ==
  [method |-> << "POST" >>, pathname |-> LoginPath, authorization |-> Undefined,
   body |-> credentials, bodyUsed |-> FALSE]

NoPayload == [t |-> "object", userId |-> 0, iat |-> 0, exp |-> Null]

\* what a caller of handleLogin sees
HandlerOutcome(r) ==
  [accepted |-> r.token.issuedToken,
   name |-> CASE r.response.status = 200 -> "none"
              [] r.response.status = 400 -> "ValidationError"
              [] r.response.status = 401 -> "UnauthorizedError"
              [] OTHER -> "Error",
   message |-> IF r.response.body.kind = "error" THEN r.response.body.error
               ELSE << >>,
   status |-> r.response.status,
   compared |-> r.compared,
   expiresIn |-> IF r.token.issuedToken THEN r.response.body.expiresIn
                 ELSE Undefined,
   payload |-> IF r.token.issuedToken THEN r.token.payload ELSE NoPayload]

\* what a caller of validateCredentials sees
CredentialsOutcome(r) ==
  [accepted |-> r.valid, name |-> "none", message |-> << >>, status |-> 0,
   compared |-> r.compared, expiresIn |-> Undefined, payload |-> NoPayload]

\* what a caller of AuthService.login sees
ServiceOutcome(r) ==
  IF r.kind = "returned"
  THEN [accepted |-> TRUE, name |-> "none", message |-> << >>, status |-> 200,
        compared |-> r.compared, expiresIn |-> r.expiresIn,
        payload |-> r.payload]
  ELSE [accepted |-> FALSE, name |-> r.name, message |-> r.message,
        status |-> r.status, compared |-> r.compared, expiresIn |-> Undefined,
        payload |-> NoPayload]

\* the outcome of a login with the given credentials on the given path
LoginOutcome(path, credentials) ==
  CASE path = "handleLogin" ->
         HandlerOutcome(HandleLogin(LoginRequest(credentials), env, now))
    [] path = "validateCredentials" ->
         CredentialsOutcome(ValidateCredentials(LoginRequest(credentials), env))
    [] path = "config" ->
         ServiceOutcome(ConfigAuthServiceLogin(credentials, env, now))
    [] path = "store" ->
         ServiceOutcome(StoreAuthServiceLogin(credentials, env, UserTable, now))

LoginInit ==
  /\ now = Epoch
  /\ env \in LoginEnvs
  /\ routes = InitialRoutes
  /\ issued = {}
  /\ last = Idle
  /\ posts = {}
  /\ calls = [c \in 1..MaxCalls |-> NoCall]
  /\ slugUnique = FALSE
  /\ store = NoStore

\* a login is attempted on one of the paths
Login(path, credentials) ==
  /\ last = Idle
  /\ last' = [op |-> "login", path |-> path, credentials |-> credentials,
              outcome |-> LoginOutcome(path, credentials)]
  /\ UNCHANGED << now, env, routes, issued, posts, calls, slugUnique, store >>

HandlerLogin == \E c \in Credentials : Login("handleLogin", c)

CredentialsCheck == \E c \in Credentials : Login("validateCredentials", c)

ConfigLogin == \E c \in Credentials : Login("config", c)

StoreLogin == \E c \in Credentials : Login("store", c)

LoginNext ==
  \/ Tick
  \/ HandlerLogin
  \/ CredentialsCheck
  \/ ConfigLogin
  \/ StoreLogin
  \/ Return

LoginSpec == LoginInit /\ [][LoginNext]_vars

(***************************************************************************)
(* The codec on its own: a value is encoded, and what was encoded is       *)
(* decoded both ways.  A byte sequence and a binary string are the same    *)
(* sequence of code units; a code unit above 255 occurs in strings only.   *)
(***************************************************************************)
MaxLen == 3

\* code units: 0, the ones whose encodings use '+' and '/', and one that
\* btoa rejects
CodeUnits == {0, 62, 63, 251, 255, 256}

RECURSIVE SeqsUpTo(_, _)
\* the sequences over S of length at most n
SeqsUpTo(S, n) ==
  IF n = 0 THEN {<< >>}
  ELSE LET shorter == SeqsUpTo(S, n - 1)
       IN  shorter \cup {Append(q, x) : q \in shorter, x \in S}

CodecInputs == SeqsUpTo(CodeUnits, MaxLen)

\* base64UrlEncode(input)
Encode(input) ==
  /\ last = Idle
  /\ last' = [op |-> "encode", input |-> input,
              encoded |-> Base64UrlEncode(input)]
  /\ UNCHANGED << now, env, routes, issued, posts, calls, slugUnique, store >>

\* base64UrlDecode and base64UrlDecodeString of what was encoded
Decode ==
  /\ last # Idle
  /\ last.op = "encode"
  /\ last.encoded.ok
  /\ last' = [op |-> "decode", input |-> last.input, encoded |-> last.encoded,
              bytes |-> Base64UrlDecode(last.encoded.val),
              string |-> Base64UrlDecodeString(last.encoded.val)]
  /\ UNCHANGED << now, env, routes, issued, posts, calls, slugUnique, store >>

EncodeAny == last = Idle /\ \E input \in CodecInputs : Encode(input)

CodecNext ==
  \/ EncodeAny
  \/ Decode
  \/ Return

CodecSpec == Init /\ [][CodecNext]_vars

(***************************************************************************)
(* Sessions over time: tokens are issued for the administrator one after   *)
(* the other, logins are attempted, time passes, and a token issued        *)
(* earlier is validated again.                                             *)
(***************************************************************************)
MaxSessions == 2

SessionLifetimes == {Num(0 - 1), Num(1), Num(2)}

IssueSession ==
  /\ last = Idle
  /\ Cardinality(issued) < MaxSessions
  /\ \E l \in SessionLifetimes : Issue(1, l, env.JWT_SECRET)

ValidateHeld ==
  last = Idle /\ \E i \in issued, k \in Secrets : Validate(i.token, k)

\* a login of the administrator, with the right or a wrong password
AdminLogin ==
  \E c \in Credentials :
    /\ c.username = Str(AdminName)
    /\ c.password \in {Str(AdminPassword), Str(<< "bad" >>)}
    /\ Login("config", c)

SessionNext ==
  \/ Tick
  \/ IssueSession
  \/ AdminLogin
  \/ ValidateHeld
  \/ Return

SessionSpec == Init /\ [][SessionNext]_vars

(***************************************************************************)
(* services/PostService.js over the posts table.  Requests run             *)
(* concurrently: each await of createPost and updatePost is a step of its  *)
(* own, and steps of different requests interleave.  The schema of the     *)
(* posts table is not part of the worker; the table may or may not carry   *)
(* a unique index on slug, and a write that breaks the index fails.        *)
(***************************************************************************)
MaxPosts == 3

Slugs == {<< "a" >>, << "b" >>}

PostIds == 1..MaxPosts

NoResponse == [status |-> 0, body |-> [kind |-> "empty"]]

\* SELECT id FROM posts WHERE slug = ? AND id != ?
SlugTaken(slug, exceptId) ==
  \E p \in posts : p.slug = slug /\ p.id # exceptId

PostInit ==
  /\ now = Epoch
  /\ env \in {e \in Envs : e.JWT_EXPIRY = Undefined}
  /\ routes = InitialRoutes
  /\ issued = {}
  /\ last = Idle
  /\ posts = {}
  /\ calls = [c \in 1..MaxCalls |-> NoCall]
  /\ slugUnique \in BOOLEAN
  /\ store = NoStore

\* a new request takes the first free slot
FirstFree(c) ==
  calls[c] = NoCall /\ \A d \in 1..(c - 1) : calls[d] # NoCall

\* the request in slot c waits at its next await
Await(c, pc, op, slug, postId) ==
  calls' = [calls EXCEPT ![c] = [pc |-> pc, op |-> op, slug |-> slug,
                                 postId |-> postId]]

\* the request is over: its slot is free again, and the handler's response
\* is the last one given; taken tells whether the slug was in use by
\* another post when the request last touched the table
Respond(c, op, taken, response) ==
  /\ calls' = [calls EXCEPT ![c] = NoCall]
  /\ last' = [op |-> op, taken |-> taken, response |-> response]

\* createPost(postData) up to and including await
\* this.repository.findBySlug(slug); slug is postData.slug or the generated
\* one
FindBySlug(c, slug) ==
  /\ FirstFree(c)
  /\ IF SlugTaken(slug, 0)
     THEN Respond(c, "createPost", TRUE,
                  ErrorResponse(<< "Slug already exists" >>, ValidationErrorStatus))
     ELSE Await(c, "create", "createPost", Str(slug), 0) /\ last' = last
  /\ UNCHANGED << now, env, routes, issued, posts, slugUnique, store >>

\* createPost: await this.repository.create({slug, ...}) and the rest
Create(c) ==
  /\ calls[c] # NoCall
  /\ calls[c].pc = "create"
  /\ Cardinality(posts) < MaxPosts
  /\ LET slug == calls[c].slug
         taken == SlugTaken(slug.s, 0)
         postId == Cardinality(posts) + 1
     IN  IF slugUnique /\ taken
         THEN /\ Respond(c, "createPost", TRUE,
                         ErrorResponse(<< "Internal server error" >>, 500))
              /\ posts' = posts
         ELSE /\ Respond(c, "createPost", taken,
                         SuccessResponse([kind |-> "data"], 200))
              /\ posts' = posts \cup {[id |-> postId, slug |-> slug.s]}
  /\ UNCHANGED << now, env, routes, issued, slugUnique, store >>

\* updatePost(postId, postData) up to and including await
\* this.repository.findById(postId)
FindById(c, postId, slug) ==
  /\ FirstFree(c)
  /\ IF ~\E p \in posts : p.id = postId
     THEN Respond(c, "updatePost", FALSE,
                  ErrorResponse(<< "Post not found" >>, NotFoundStatus))
     ELSE /\ Await(c, IF TruthyStr(slug) THEN "findBySlugExcludingId"
                      ELSE "update", "updatePost", slug, postId)
          /\ last' = last
  /\ UNCHANGED << now, env, routes, issued, posts, slugUnique, store >>

\* updatePost: await this.repository.findBySlugExcludingId(slug, postId)
FindBySlugExcludingId(c) ==
  /\ calls[c] # NoCall
  /\ calls[c].pc = "findBySlugExcludingId"
  /\ IF SlugTaken(calls[c].slug.s, calls[c].postId)
     THEN Respond(c, "updatePost", TRUE,
                  ErrorResponse(<< "Slug already exists" >>, ValidationErrorStatus))
     ELSE /\ Await(c, "update", "updatePost", calls[c].slug, calls[c].postId)
          /\ last' = last
  /\ UNCHANGED << now, env, routes, issued, posts, slugUnique, store >>

\* updatePost: await this.repository.update(postId, {slug, ...}), which
\* sets slug = COALESCE(?, slug), and the rest
Update(c) ==
  /\ calls[c] # NoCall
  /\ calls[c].pc = "update"
  /\ LET slug == calls[c].slug
         postId == calls[c].postId
         changes == TruthyStr(slug)
         taken == changes /\ SlugTaken(slug.s, postId)
     IN  IF slugUnique /\ taken
         THEN /\ Respond(c, "updatePost", TRUE,
                         ErrorResponse(<< "Internal server error" >>, 500))
              /\ posts' = posts
         ELSE /\ Respond(c, "updatePost", taken,
                         SuccessResponse([kind |-> "data"], 200))
              /\ posts' = {IF p.id = postId /\ changes
                           THEN [p EXCEPT !.slug = slug.s]
                           ELSE p : p \in posts}
  /\ UNCHANGED << now, env, routes, issued, slugUnique, store >>

PostNext ==
  \E c \in 1..MaxCalls :
    \/ \E slug \in Slugs : FindBySlug(c, slug)
    \/ Create(c)
    \/ \E postId \in PostIds, slug \in {Str(x) : x \in Slugs} \cup {Undefined} :
         FindById(c, postId, slug)
    \/ FindBySlugExcludingId(c)
    \/ Update(c)

PostSpec == PostInit /\ [][PostNext]_vars

\* the token service on its own, for any subject, lifetime and secret
\* the tokens the service is asked for: every lifetime for one user under
\* one secret, one lifetime for every user, and one token under every secret
IssueInputs ==
  {<< 1, l, K1 >> : l \in TokenLifetimes}
    \cup {<< u, Num(2), K1 >> : u \in UserIds}
    \cup {<< 1, Num(1), k >> : k \in Secrets}

IssueAny ==
  /\ last = Idle
  /\ Cardinality(issued) < MaxIssued
  /\ \E x \in IssueInputs : Issue(x[1], x[2], x[3])

\* token strings with exactly two dots and an empty segment: 'a..c',
\* 'a.b.', '.b.c', '..', and an issued token with its signature cut off
\* after the dot
EmptyPartTokens ==
  {<< "a", ".", ".", "c" >>, << "a", ".", "b", "." >>,
   << ".", "b", ".", "c" >>, << ".", "." >>}
  \cup {WithoutSignature(i.token) \o << "." >> : i \in issued}

\* correctly signed tokens whose claims carry no expiry: exp null (as
\* written for NaN and read back for a missing exp) and exp 0
NoExpiryTokens ==
  {SignedOver(Base64UrlEncode(JsonStringify(
                [t |-> "object", userId |-> 1, iat |-> Epoch, exp |-> e])).val,
              K1) : e \in {Null, Num(0)}}

ValidateAny ==
  last = Idle
  /\ \E t \in TokenInputs \cup EmptyPartTokens \cup NoExpiryTokens,
         k \in Secrets : Validate(t, k)

TokenNext ==
  \/ Tick
  \/ IssueAny
  \/ ValidateAny
  \/ Return

\* The token service takes the secret and the lifetime as arguments and
\* reads no binding: it starts under one configuration.
TokenInit ==
  /\ Init
  /\ env.JWT_EXPIRY = Undefined

TokenSpec == TokenInit /\ [][TokenNext]_vars

(***************************************************************************)
(* The route table on its own: registerRoute, getRoutes and findRoute, for *)
(* any method and path.                                                    *)
(***************************************************************************)
\* how many routes are registered after module load
MaxRegistered == 2

\* routes a caller of registerRoute adds: a second capture pattern and a
\* second literal pattern for paths the table already serves, and a pattern
\* with its capture in another place
RegisterInputs ==
  {[pattern |-> << "PUT", " ", "/", "admin", "/", "posts", "/", ":", "id" >>,
    handler |-> "lateHandler"],
   [pattern |-> << "GET", " ", "/", "session" >>, handler |-> "lateHandler"],
   [pattern |-> << "PUT", " ", "/", "admin", "/", ":", "section", "/", "42" >>,
    handler |-> "laterHandler"]}

\* paths with an empty segment at the front, in the middle and at the end
SlashPaths ==
  {<< "/", "/", "session" >>,
   << "/", "admin", "/", "/", "posts", "/", "42" >>,
   << "/", "admin", "/", "posts", "/", "42", "/" >>}

RouterPaths == Paths \cup ProbePaths \cup SlashPaths

\* registerRoute(pattern, handler)
RegisterRoute(pattern, handler) ==
  /\ last = Idle
  /\ Len(routes) < Len(InitialRoutes) + MaxRegistered
  /\ routes' = Append(routes, [pattern |-> pattern, handler |-> handler])
  /\ last' = [op |-> "registerRoute", pattern |-> pattern, handler |-> handler]
  /\ UNCHANGED << now, env, issued, posts, calls, slugUnique, store >>

\* getRoutes()
GetRoutes ==
  /\ last = Idle
  /\ last' = [op |-> "getRoutes",
              result |-> [i \in 1..Len(routes) |-> routes[i].pattern]]
  /\ UNCHANGED << now, env, routes, issued, posts, calls, slugUnique, store >>

\* router looks the request up: findRoute(request.method, url.pathname)
LookUp(method, pathname) ==
  /\ last = Idle
  /\ last' = [op |-> "findRoute", method |-> method, pathname |-> pathname,
              result |-> FindRoute(routes, method, pathname)]
  /\ UNCHANGED << now, env, routes, issued, posts, calls, slugUnique, store >>

RegisterAny == \E r \in RegisterInputs : RegisterRoute(r.pattern, r.handler)

LookUpAny == \E m \in Methods, p \in RouterPaths : LookUp(m, p)

RouterNext ==
  \/ RegisterAny
  \/ GetRoutes
  \/ LookUpAny
  \/ Return

RouterSpec == TokenInit /\ [][RouterNext]_vars

(***************************************************************************)
(* services/PostService.js and services/CommentService.js behind their     *)
(* handlers: createPost, updatePost, deletePost and deleteComment.  A      *)
(* request advances from one await to the next, requests interleave at     *)
(* their awaits, and any store call may fail.                              *)
(***************************************************************************)
\* commentId.length < 36
CommentIdLength == 36

\* a comment id of full length
LongId(c) == [i \in 1..CommentIdLength |-> c]

\* toLowerCase() on the characters that titles are written with
LowerCase(c) == CASE c = "A" -> "a" [] c = "B" -> "b" [] OTHER -> c

\* [a-z0-9]
IsSlugChar(c) == c \in {"a", "b"} \/ IsDigit(c)

RECURSIVE Dashed(_)
\* .toLowerCase().replace(/[^a-z0-9]+/g, "-")
Dashed(chars) ==
  IF Len(chars) = 0 THEN << >>
  ELSE LET c == LowerCase(Head(chars))
           rest == Dashed(Tail(chars))
       IN  IF IsSlugChar(c) THEN << c >> \o rest
           ELSE IF Len(rest) > 0 /\ Head(rest) = "-" THEN rest
           ELSE << "-" >> \o rest

\* .replace(/^-+|-+$/g, "")
Undashed(chars) ==
  LET front == IF Len(chars) > 0 /\ Head(chars) = "-" THEN Tail(chars)
               ELSE chars
  IN  IF Len(front) > 0 /\ front[Len(front)] = "-"
      THEN SubSeq(front, 1, Len(front) - 1)
      ELSE front

\* generateSlug(title)
GenerateSlug(title) == Undashed(Dashed(title))

\* utils/validation.js: validatePostCreate(postData)
ValidatePostCreate(postData) ==
  IF Len(postData.title) > 0 THEN [valid |-> TRUE, error |-> << >>]
  ELSE [valid |-> FALSE, error |-> << "Title and content are required" >>]

\* request bodies for createPost and updatePost: no title; a title and a
\* tag that does not exist yet; a title, the slug of the first post, its tag
\* and the new tag
PostInputs ==
  {[title |-> << >>, slug |-> Undefined, tags |-> << >>],
   [title |-> << "B", "!" >>, slug |-> Undefined, tags |-> << "y" >>],
   [title |-> << "B", "!" >>, slug |-> Str(<< "a" >>),
    tags |-> << "x", "y" >>]}

\* params.postId as the router hands it over
PostIdParams == {<< "1" >>, << "2" >>, << "x" >>}

\* params.commentId as the router hands it over
CommentIdParams == {<< "c", "1" >>, LongId("c"), LongId("d")}

\* deletePost and deleteComment read no body
NoData == [title |-> << >>, slug |-> Undefined, tags |-> << >>]

\* the tables after earlier requests: one post with one tag, one comment
StoredBefore ==
  [posts |-> {[id |-> 1, slug |-> << "a" >>, title |-> << "A" >>]},
   tags |-> {"x"},
   postTags |-> {[postId |-> 1, tag |-> "x"]},
   comments |-> {LongId("c")}]

\* SELECT t.name FROM tags t JOIN post_tags pt ... WHERE pt.post_id = ?
TagsOf(postId) == {pt.tag : pt \in {q \in store.postTags : q.postId = postId}}

\* a run serves MaxCalls requests, slot c holding the c-th of them
StoreInit ==
  /\ now = Epoch
  /\ env \in {e \in Envs : e.JWT_EXPIRY = Undefined}
  /\ routes = InitialRoutes
  /\ issued = {}
  /\ last = Idle
  /\ posts = {}
  /\ calls = [c \in 1..MaxCalls |-> NoCall]
  /\ slugUnique = FALSE
  /\ store = StoredBefore

\* the status the handlers answer an error with, were every error
\* answered as a client error
HandlerStatusAllClient(op, name) ==
  IF name = "NotFoundError" THEN NotFoundStatus ELSE ValidationErrorStatus

\* the status the handlers answer an error with: err.status for a
\* ValidationError (and, but in handleCreatePost, a NotFoundError), 500 for
\* anything else
HandlerStatus(op, name) ==
  CASE name = "ValidationError" -> ValidationErrorStatus
    [] name = "NotFoundError" /\ op # "createPost" -> NotFoundStatus
    [] OTHER -> InternalErrorStatus

\* a slot whose request has been answered
Done == [pc |-> "done"]

\* a request as it enters its service method; wrote and oldTags record
\* what the request has done to the store so far
Request(op, id, data, pc) ==
  [pc |-> pc, op |-> op, id |-> id, data |-> data, slug |-> data.slug,
   i |-> 1, wrote |-> FALSE, oldTags |-> {}]

\* the response of a handler: successResponse(result, 200), or the
\* errorResponse for the error that was thrown
Responded(call, name) ==
  [op |-> call.op,
   status |-> IF name = "none" THEN 200 ELSE HandlerStatus(call.op, name),
   call |-> call]

\* the request in slot c goes on to its next await
Goto(c, pc) == calls' = [calls EXCEPT ![c].pc = pc] /\ last' = last

\* the handler of the request in slot c returns
Finish(c, name) ==
  /\ calls' = [calls EXCEPT ![c] = Done]
  /\ last' = Responded(calls[c], name)

\* the request in slot c wrote to the store and goes on
Written(c, pc, newStore) ==
  /\ store' = newStore
  /\ calls' = [calls EXCEPT ![c].pc = pc, ![c].wrote = TRUE]
  /\ last' = last

\* the request in slot c wrote to the store and its handler returns
WrittenLast(c, newStore) ==
  /\ store' = newStore
  /\ calls' = [calls EXCEPT ![c] = Done]
  /\ last' = Responded([calls[c] EXCEPT !.wrote = TRUE], "none")

\* the request in slot c is between its first await and its response
Live(c) == calls[c] \notin {NoCall, Done}

At(c, op, pc) == Live(c) /\ calls[c].op = op /\ calls[c].pc = pc

Quiet == UNCHANGED << now, env, routes, issued, posts, slugUnique >>

\* the request in slot c is rejected before its first await
Refused(c, op, id, data, name) ==
  /\ last' = Responded(Request(op, id, data, "start"), name)
  /\ calls' = [calls EXCEPT ![c] = Done]

\* a request reaches its first await in slot c
Started(c, call) == calls' = [calls EXCEPT ![c] = call] /\ last' = last

\* handleCreatePost / createPost up to the first await
CreatePost(c, postData) ==
  /\ last = Idle
  /\ FirstFree(c)
  /\ IF ~ValidatePostCreate(postData).valid
     THEN Refused(c, "createPost", 0, postData, "ValidationError")
     ELSE Started(c, [Request("createPost", 0, postData, "findBySlug")
                        EXCEPT !.slug = IF TruthyStr(postData.slug)
                                        THEN postData.slug
                                        ELSE Str(GenerateSlug(postData.title))])
  /\ Quiet /\ store' = store

\* createPost: await this.repository.findBySlug(slug)
AwaitFindBySlug(c) ==
  /\ last = Idle
  /\ At(c, "createPost", "findBySlug")
  /\ IF \E p \in store.posts : p.slug = calls[c].slug.s
     THEN Finish(c, "ValidationError")
     ELSE Goto(c, "create")
  /\ Quiet /\ store' = store

\* after the post row is written: associateTags if there are tags, then
\* getPostWithTags
TagsOrRead(c) ==
  IF Len(calls[c].data.tags) > 0 THEN "findTagByName" ELSE "getPostWithTags"

\* result.meta.last_row_id of an insert into posts
LastRowId ==
  IF store.posts = {} THEN 1
  ELSE 1 + CHOOSE n \in {p.id : p \in store.posts} :
             \A p \in store.posts : p.id <= n

\* createPost: await this.repository.create({...})
AwaitCreate(c) ==
  /\ last = Idle
  /\ At(c, "createPost", "create")
  /\ store' = [store EXCEPT !.posts =
                 @ \cup {[id |-> LastRowId, slug |-> calls[c].slug.s,
                          title |-> calls[c].data.title]}]
  /\ calls' = [calls EXCEPT ![c].pc = TagsOrRead(c), ![c].id = LastRowId,
                            ![c].wrote = TRUE]
  /\ last' = last
  /\ Quiet

\* handleUpdatePost / updatePost up to the first await
UpdatePost(c, postIdParam, postData) ==
  /\ last = Idle
  /\ FirstFree(c)
  /\ IF ParseInt(postIdParam) = NaN
     THEN Refused(c, "updatePost", 0, postData, "ValidationError")
     ELSE IF ~ValidatePostCreate(postData).valid
     THEN Refused(c, "updatePost", ParseInt(postIdParam).n, postData,
                   "ValidationError")
     ELSE Started(c, Request("updatePost", ParseInt(postIdParam).n, postData,
                             "findById"))
  /\ Quiet /\ store' = store

\* updatePost and deletePost: await this.repository.findById(postId)
AwaitFindById(c) ==
  /\ last = Idle
  /\ Live(c)
  /\ calls[c].op \in {"updatePost", "deletePost"}
  /\ calls[c].pc = "findById"
  /\ IF ~\E p \in store.posts : p.id = calls[c].id
     THEN Finish(c, "NotFoundError")
     ELSE Goto(c, IF calls[c].op = "deletePost" THEN "delete"
                  ELSE IF TruthyStr(calls[c].slug)
                  THEN "findBySlugExcludingId" ELSE "update")
  /\ Quiet /\ store' = store

\* updatePost: await this.repository.findBySlugExcludingId(slug, postId)
AwaitFindBySlugExcludingId(c) ==
  /\ last = Idle
  /\ At(c, "updatePost", "findBySlugExcludingId")
  /\ IF \E p \in store.posts : p.slug = calls[c].slug.s /\ p.id # calls[c].id
     THEN Finish(c, "ValidationError")
     ELSE Goto(c, "update")
  /\ Quiet /\ store' = store

\* updatePost: await this.repository.update(postId, {...}), with
\* slug = COALESCE(?, slug)
AwaitUpdate(c) ==
  /\ last = Idle
  /\ At(c, "updatePost", "update")
  /\ Written(c, "deletePostTags",
             [store EXCEPT !.posts =
                {IF p.id = calls[c].id
                 THEN [p EXCEPT !.title = calls[c].data.title,
                                !.slug = IF TruthyStr(calls[c].slug)
                                         THEN calls[c].slug.s ELSE @]
                 ELSE p : p \in store.posts}])
  /\ Quiet

\* updatePost: await this.repository.deletePostTags(postId)
AwaitDeletePostTags(c) ==
  /\ last = Idle
  /\ At(c, "updatePost", "deletePostTags")
  /\ store' = [store EXCEPT !.postTags = {q \in @ : q.postId # calls[c].id}]
  /\ calls' = [calls EXCEPT ![c].pc = TagsOrRead(c), ![c].wrote = TRUE,
                            ![c].oldTags = TagsOf(calls[c].id)]
  /\ last' = last
  /\ Quiet

\* associateTags: await this.repository.findTagByName(tagName)
AwaitFindTagByName(c) ==
  /\ last = Idle
  /\ Live(c)
  /\ calls[c].pc = "findTagByName"
  /\ Goto(c, IF calls[c].data.tags[calls[c].i] \in store.tags
             THEN "createPostTag" ELSE "createTag")
  /\ Quiet /\ store' = store

\* associateTags: await this.repository.createTag(tagName, timestamp)
AwaitCreateTag(c) ==
  /\ last = Idle
  /\ Live(c)
  /\ calls[c].pc = "createTag"
  /\ Written(c, "createPostTag",
             [store EXCEPT !.tags = @ \cup {calls[c].data.tags[calls[c].i]}])
  /\ Quiet

\* associateTags: await this.repository.createPostTag(postId, tagId), and
\* on to the next tag
AwaitCreatePostTag(c) ==
  /\ last = Idle
  /\ Live(c)
  /\ calls[c].pc = "createPostTag"
  /\ store' = [store EXCEPT !.postTags =
                 @ \cup {[postId |-> calls[c].id,
                          tag |-> calls[c].data.tags[calls[c].i]]}]
  /\ calls' = [calls EXCEPT
                 ![c].pc = IF calls[c].i < Len(calls[c].data.tags)
                           THEN "findTagByName" ELSE "getPostWithTags",
                 ![c].i = @ + 1, ![c].wrote = TRUE]
  /\ last' = last
  /\ Quiet

\* createPost and updatePost: await this.getPostWithTags(postId), return
AwaitGetPostWithTags(c) ==
  /\ last = Idle
  /\ Live(c)
  /\ calls[c].pc = "getPostWithTags"
  /\ Finish(c, "none")
  /\ Quiet /\ store' = store

\* handleDeletePost / deletePost up to the first await
DeletePost(c, postIdParam) ==
  /\ last = Idle
  /\ FirstFree(c)
  /\ IF ParseInt(postIdParam) = NaN
     THEN Refused(c, "deletePost", 0, NoData, "ValidationError")
     ELSE Started(c, Request("deletePost", ParseInt(postIdParam).n, NoData,
                             "findById"))
  /\ Quiet /\ store' = store

\* deletePost: await this.repository.delete(postId), return
AwaitDelete(c) ==
  /\ last = Idle
  /\ At(c, "deletePost", "delete")
  /\ WrittenLast(c, [store EXCEPT !.posts =
                       {p \in @ : p.id # calls[c].id}])
  /\ Quiet

\* handleDeleteComment / deleteComment up to the first await
DeleteComment(c, commentId) ==
  /\ last = Idle
  /\ FirstFree(c)
  /\ IF Len(commentId) = 0 \/ Len(commentId) < CommentIdLength
     THEN Refused(c, "deleteComment", commentId, NoData, "ValidationError")
     ELSE Started(c, Request("deleteComment", commentId, NoData,
                             "findCommentById"))
  /\ Quiet /\ store' = store

\* deleteComment: await this.repository.findById(commentId)
AwaitFindCommentById(c) ==
  /\ last = Idle
  /\ At(c, "deleteComment", "findCommentById")
  /\ IF calls[c].id \notin store.comments
     THEN Finish(c, "NotFoundError")
     ELSE Goto(c, "deleteComment")
  /\ Quiet /\ store' = store

\* deleteComment: await this.repository.delete(commentId), return
AwaitDeleteComment(c) ==
  /\ last = Idle
  /\ At(c, "deleteComment", "deleteComment")
  /\ WrittenLast(c, [store EXCEPT !.comments = @ \ {calls[c].id}])
  /\ Quiet

\* the store call the request in slot c awaits rejects: the handler
\* answers with its catch-all
AwaitRejects(c) ==
  /\ last = Idle
  /\ Live(c)
  /\ Finish(c, "Error")
  /\ Quiet /\ store' = store

StoreNext ==
  \/ \E c \in 1..MaxCalls, postData \in PostInputs : CreatePost(c, postData)
  \/ \E c \in 1..MaxCalls, postIdParam \in PostIdParams,
        postData \in PostInputs : UpdatePost(c, postIdParam, postData)
  \/ \E c \in 1..MaxCalls, postIdParam \in PostIdParams :
        DeletePost(c, postIdParam)
  \/ \E c \in 1..MaxCalls, commentId \in CommentIdParams :
        DeleteComment(c, commentId)
  \/ \E c \in 1..MaxCalls :
        \/ AwaitFindBySlug(c)
        \/ AwaitCreate(c)
        \/ AwaitFindById(c)
        \/ AwaitFindBySlugExcludingId(c)
        \/ AwaitUpdate(c)
        \/ AwaitDeletePostTags(c)
        \/ AwaitFindTagByName(c)
        \/ AwaitCreateTag(c)
        \/ AwaitCreatePostTag(c)
        \/ AwaitGetPostWithTags(c)
        \/ AwaitDelete(c)
        \/ AwaitFindCommentById(c)
        \/ AwaitDeleteComment(c)
        \/ AwaitRejects(c)
  \/ Return

StoreSpec == StoreInit /\ [][StoreNext]_vars

(***************************************************************************)
(* Properties                                                              *)
(***************************************************************************)
\* the token of a request whose Authorization header starts with "Bearer "
PresentedToken(request) ==
  LET authHeader == HeadersGet(request.authorization)
  IN  SubSeq(authHeader.s, 3, Len(authHeader.s))

HasBearer(request) ==
  LET authHeader == HeadersGet(request.authorization)
  IN  TruthyStr(authHeader) /\ StartsWithBearer(authHeader.s)

\* the request carries "Authorization: Bearer <token>" with a token that
\* validateJWT accepts under the configured secret
CarriesAcceptedToken(request) ==
  HasBearer(request)
  /\ ValidateJWT(PresentedToken(request), env.JWT_SECRET, now).ok

\* method and path match a registered route other than the login route
MatchesProtectedRoute(request) ==
  LET match == FindRoute(routes, request.method, request.pathname)
  IN  match.kind = "match" /\ match.handler # "handleLogin"

\* C1: a request through fetch that matches a route other than POST /login
\* reaches its handler only if it carries a bearer token that validateJWT
\* accepts; without one it is answered 401 and no handler is invoked.
C1_HandlerOnlyWithAcceptedToken ==
  (last.op = "fetch" /\ MatchesProtectedRoute(last.request)) =>
     /\ last.handler # "none" => CarriesAcceptedToken(last.request)
     /\ ~CarriesAcceptedToken(last.request) =>
          (last.response.status = 401 /\ last.handler = "none")

\* C2: through fetch, GET /session with a token issued for the administrator
\* under the configured secret, before its expiry, is answered 200 with
\* valid = true and the administrator id; without the header it is answered
\* 401.
C2_SessionAfterLogin ==
  (/\ last.op = "fetch"
   /\ last.request.method = << "GET" >>
   /\ last.request.pathname = SessionPath) =>
     /\ \A i \in issued :
          (/\ last.request.authorization = Bearer(i.token)
           /\ i.secret = env.JWT_SECRET
           /\ i.payload.userId = 1
           /\ ~Expired(i.payload, now)) =>
             /\ last.response.status = 200
             /\ last.response.body.kind = "session"
             /\ last.response.body.valid
             /\ last.response.body.userId = 1
     /\ last.request.authorization = Undefined => last.response.status = 401

\* the body names the configured administrator: the user name is the
\* configured one and the digest of password + salt is the configured digest
IdentifiesAdministrator(body) ==
  /\ body.username = env.ADMIN_USERNAME
  /\ Str(Sha256Hex(body.password.s \o env.PASSWORD_SALT.s)) = env.ADMIN_PASSWORD

\* C3: handleLogin answers 400 when username or password is missing, 200
\* with a token when both are present and identify the administrator, and
\* 401 with an error body when both are present otherwise.
C3_LoginOutcome ==
  (/\ last.op = "fetch"
   /\ last.handler = "handleLogin"
   /\ last.request.body.kind = "json") =>
     IF ~(TruthyStr(last.request.body.username)
          /\ TruthyStr(last.request.body.password))
     THEN last.response.status = 400
     ELSE IF IdentifiesAdministrator(last.request.body)
     THEN last.response.status = 200 /\ last.response.body.kind = "login"
     ELSE last.response.status = 401 /\ last.response.body.kind = "error"

\* C4: a token issued for subject s with a positive lifetime L under secret
\* K, validated under K at the second of its issuance, is accepted, and the
\* claims returned are the issued ones, with exp = iat + L.
C4_IssueValidateRoundTrip ==
  last.op = "validate" =>
    \A i \in issued :
      (/\ i.token = last.token
       /\ i.secret = last.secret
       /\ i.at = now
       /\ i.lifetime.t = "number"
       /\ i.lifetime.n > 0) =>
         /\ last.result.ok
         /\ last.result.val = i.payload
         /\ last.result.val.userId = i.userId
         /\ last.result.val.exp = Num(last.result.val.iat + i.lifetime.n)

C4_Witness ==
  /\ last.op = "validate"
  /\ last.result.ok
  /\ \E i \in issued :
       /\ i.token = last.token
       /\ i.secret = last.secret
       /\ i.at = now
       /\ i.lifetime = Num(2)
       /\ i.userId = 2

\* C5: a token generated under secret K1 is rejected by validateJWT under
\* every other secret K2, at any time and for any payload.
C5_OtherSecretRejected ==
  last.op = "validate" =>
    \A i \in issued :
      (i.token = last.token /\ i.secret # last.secret) => ~last.result.ok

C5_Witness ==
  /\ last.op = "validate"
  /\ ~last.result.ok
  /\ \E i \in issued :
       /\ i.token = last.token
       /\ i.secret # last.secret
       /\ ~Expired(i.payload, now)

\* the gate verifies the token of this request
GateVerifies(request) == request.pathname # LoginPath /\ HasBearer(request)

\* C6: a correctly signed token whose exp has passed is rejected as
\* 'Token expired', and the gate answers the request presenting it with 401.
C6_ExpiredRejected ==
  (last.op = "authenticate" /\ GateVerifies(last.request)) =>
    \A i \in issued :
      (/\ PresentedToken(last.request) = i.token
       /\ i.secret = env.JWT_SECRET
       /\ i.payload.exp.t = "number"
       /\ i.payload.exp.n < now) =>
         /\ last.result.kind = "response"
         /\ last.result.response.status = 401
         /\ last.result.response.body.error =
              << "Unauthorized - ", "Token expired" >>

C6_Witness ==
  /\ last.op = "authenticate"
  /\ GateVerifies(last.request)
  /\ last.result.kind = "response"
  /\ last.result.response.status = 401
  /\ \E i \in issued :
       /\ PresentedToken(last.request) = i.token
       /\ i.lifetime = Num(1)
       /\ i.payload.exp.n < now

\* C7: a token that splits on '.' into fewer or more than 3 parts is
\* rejected as 'Invalid token format' before its segments are processed, and
\* the gate answers the request presenting it with 401.
C7_WrongPartCountRejected ==
  (/\ last.op = "authenticate"
   /\ GateVerifies(last.request)
   /\ Len(Split(PresentedToken(last.request), ".")) # 3) =>
     /\ last.result.kind = "response"
     /\ last.result.response.status = 401
     /\ last.result.response.body.error =
          << "Unauthorized - ", "Invalid token format" >>

C7_Witness ==
  /\ last.op = "authenticate"
  /\ GateVerifies(last.request)
  /\ PresentedToken(last.request) = << "a", ".", "b", ".", "!", ".", "c" >>
  /\ last.result.kind = "response"
  /\ last.result.response.status = 401

\* the three checks of validateJWT that reject by name
NamedRejections == {"Invalid token format", "Invalid signature", "Token expired"}

RejectedByName(request) ==
  /\ GateVerifies(request)
  /\ ~ValidateJWT(PresentedToken(request), env.JWT_SECRET, now).ok
  /\ ValidateJWT(PresentedToken(request), env.JWT_SECRET, now).err
       \in NamedRejections

\* C8: the gate's response is the same (status and body) whether the token
\* was rejected as malformed, for its signature or for expiry.
C8_RejectionsIndistinguishable ==
  (last.op = "authenticate" /\ RejectedByName(last.request)) =>
    \A h \in HeaderInputs :
      LET other == [last.request EXCEPT !.authorization = h]
      IN  RejectedByName(other) =>
            Authenticate(other, env, now) = last.result

\* C9: verifyToken never raises: the gate's outcome is {authorized: true,
\* user: claims} or a 401 response, and every failure inside validateJWT,
\* decoding failures included, ends as 401.
C9_GateNeverRaises ==
  last.op = "authenticate" =>
    /\ \/ /\ last.result.kind = "authorized"
          /\ last.result.authorized
          /\ last.result.user.t \in {"null", "object"}
       \/ /\ last.result.kind = "response"
          /\ last.result.response.status = 401
    /\ (/\ GateVerifies(last.request)
        /\ ~ValidateJWT(PresentedToken(last.request), env.JWT_SECRET, now).ok) =>
          (last.result.kind = "response" /\ last.result.response.status = 401)

C9_Witness ==
  /\ last.op = "authenticate"
  /\ GateVerifies(last.request)
  /\ last.result.kind = "response"
  /\ last.result.response.status = 401
  /\ ValidateJWT(PresentedToken(last.request), env.JWT_SECRET, now)
       = Throw("SyntaxError")

EntryMatches(entry, method, pathname) ==
  LET parts == Split(entry.pattern, " ")
      patternParts == Segments(parts[2])
      pathParts == Segments(pathname)
  IN  /\ parts[1] = method
      /\ Len(patternParts) = Len(pathParts)
      /\ \A i \in 1..Len(patternParts) :
           Head(patternParts[i]) # ":" => patternParts[i] = pathParts[i]

\* C11: findRoute returns a match for (method, path) exactly when some table
\* entry has the same method, the same number of segments and equal literal
\* segments (PUT /admin/posts/42 matches with {postId: '42'}); when no entry
\* matches, router answers 404 and invokes no handler.
C11_MatchExactlyWhenEntryMatches ==
  (last.op = "fetch" /\ last.request.method # << "OPTIONS" >>) =>
    LET match == FindRoute(routes, last.request.method, last.request.pathname)
        some == \E i \in 1..Len(routes) :
                  EntryMatches(routes[i], last.request.method,
                               last.request.pathname)
    IN  /\ (match.kind = "match") <=> some
        /\ ~some => (last.response.status = 404 /\ last.handler = "none")
        /\ (/\ last.request.method = << "PUT" >>
            /\ last.request.pathname = << "/", "admin", "/", "posts", "/", "42" >>)
           => /\ match.kind = "match"
              /\ match.params = {[name |-> << "postId" >>, value |-> << "42" >>]}

\* both fields are present and the digest of password + salt is not the
\* one stored for this user name, which is a known one
WrongPassword(path, credentials) ==
  /\ TruthyStr(credentials.username) /\ TruthyStr(credentials.password)
  /\ IF path = "store"
     THEN \E u \in UserTable :
            /\ u.username = credentials.username
            /\ u.password # Str(HashPassword(credentials.password.s,
                                              env.PASSWORD_SALT))
     ELSE /\ credentials.username = env.ADMIN_USERNAME
          /\ env.ADMIN_PASSWORD # Str(HashPassword(credentials.password.s,
                                                    env.PASSWORD_SALT))

\* both fields are present and the user name is not a known one
UnknownUser(path, credentials) ==
  /\ TruthyStr(credentials.username) /\ TruthyStr(credentials.password)
  /\ IF path = "store"
     THEN \A u \in UserTable : u.username # credentials.username
     ELSE credentials.username # env.ADMIN_USERNAME

LoginServingPaths == {"handleLogin", "config", "store"}

\* C12: on handleLogin and on both versions of AuthService.login, a login
\* with a known user name and a wrong password and a login with an unknown
\* user name end the same way: the same error kind, the message 'Invalid
\* credentials' and the status 401.
C12_SameOutcomeForBadLogin ==
  (/\ last.op = "login"
   /\ last.path \in LoginServingPaths
   /\ WrongPassword(last.path, last.credentials)) =>
     /\ last.outcome.name = "UnauthorizedError"
     /\ last.outcome.message = << "Invalid credentials" >>
     /\ last.outcome.status = 401
     /\ \A c \in Credentials :
          UnknownUser(last.path, c) =>
            LET other == LoginOutcome(last.path, c)
            IN  /\ other.name = last.outcome.name
                /\ other.message = last.outcome.message
                /\ other.status = last.outcome.status
                /\ other.accepted = last.outcome.accepted

C12_Witness ==
  /\ last.op = "login"
  /\ last.path = "config"
  /\ last.credentials.username = Str(AdminName)
  /\ last.credentials.password = Str(<< "bad" >>)
  /\ last.outcome.status = 401
  /\ \E c \in Credentials : UnknownUser("config", c)

\* the configured lifetime is written as a positive integer
PositiveInteger(v) ==
  /\ TruthyStr(v)
  /\ \A i \in 1..Len(v.s) : IsDigit(v.s[i])
  /\ LeadingDigits(v.s, 0) > 0

\* the lifetime the issued token is to have
ExpectedLifetime ==
  IF PositiveInteger(env.JWT_EXPIRY) THEN LeadingDigits(env.JWT_EXPIRY.s, 0)
  ELSE DefaultExpiry

\* C13: a login that issues a token uses the configured lifetime if it is a
\* positive integer and 7200 seconds if JWT_EXPIRY is missing, non-positive
\* or not a positive integer: exp = iat + L with L positive, and the
\* expiresIn returned is that L.
C13_DefaultLifetimeSubstituted ==
  (last.op = "login" /\ last.outcome.accepted
   /\ last.path \in LoginServingPaths) =>
     /\ ExpectedLifetime > 0
     /\ last.outcome.payload.iat = now
     /\ last.outcome.payload.exp = Num(now + ExpectedLifetime)
     /\ last.outcome.expiresIn = Num(ExpectedLifetime)

\* C14: base64UrlEncode accepts every byte sequence, the empty one
\* included, and every string of code units up to 255; decoding what it
\* returned gives the input back, as bytes with base64UrlDecode and as a
\* string with base64UrlDecodeString.
C14_CodecRoundTrip ==
  /\ (last # Idle /\ last.op = "encode") =>
       (last.encoded.ok <=> \A i \in 1..Len(last.input) : last.input[i] <= 255)
  /\ (last # Idle /\ last.op = "decode") =>
       /\ last.bytes = Ok(last.input)
       /\ last.string = Ok(last.input)

C14_Witness ==
  /\ last # Idle
  /\ last.op = "decode"
  /\ last.input = << 251, 255 >>
  /\ last.encoded = Ok(<< "-", "_", "8" >>)
  /\ last.bytes = Ok(<< 251, 255 >>)

\* C15: fetch always completes with a response, and an exception raised
\* while routing or inside a handler, unexpected ones included, ends as an
\* error response of the 500 class.
C15_FaultsBecomeErrorResponses ==
  last.op = "fetch" =>
    /\ last.response.status \in {200, 204, 400, 401, 404, 500}
    /\ last.fault # "none" =>
         (last.response.status >= 500 /\ last.response.body.kind = "error")

\* C16: a token that validateJWT accepted under secret K when it was issued
\* is accepted under K, with the claims it was issued with, at every later
\* time up to its exp, whatever tokens were issued and whatever logins were
\* attempted in between.
C16_AcceptedUntilExpiry ==
  last.op = "validate" =>
    \A i \in issued :
      (/\ i.token = last.token
       /\ i.secret = last.secret
       /\ ~Expired(i.payload, i.at)
       /\ i.payload.exp.t = "number"
       /\ now <= i.payload.exp.n) =>
         last.result = Ok(i.payload)

C16_Witness ==
  /\ last.op = "validate"
  /\ last.result.ok
  /\ \E i, j \in issued :
       /\ i.token = last.token
       /\ i.secret = last.secret
       /\ j.at > i.at
       /\ ~Expired(j.payload, now)
       /\ now = i.payload.exp.n

\* C17: wherever a login path compares a value with the configured
\* password, the value is the digest of the submitted password + salt, never
\* the submitted password itself; no login is accepted without that
\* comparison.
C17_PasswordComparedOnlyHashed ==
  (last.op = "login" /\ TruthyStr(last.credentials.password)) =>
    LET digest == Str(HashPassword(last.credentials.password.s,
                                   env.PASSWORD_SALT))
    IN  /\ last.outcome.compared # Undefined => last.outcome.compared = digest
        /\ last.outcome.accepted => last.outcome.compared = digest

\* C18: under any interleaving of concurrent createPost and updatePost
\* requests no two posts share a slug, and a request whose slug is in use
\* by another post is answered 400 'Slug already exists'.
C18_SlugsStayUnique ==
  /\ \A p, q \in posts : p.slug = q.slug => p.id = q.id
  /\ (last.op \in {"createPost", "updatePost"} /\ last.taken) =>
       last.response =
         ErrorResponse(<< "Slug already exists" >>, ValidationErrorStatus)

\* the message for a missing or malformed Authorization header
MissingHeaderMessage ==
  << "Unauthorized - Missing or invalid authorization header" >>

\* what follows "Bearer " in the field value as it was sent
SentToken(value) == SubSeq(value.s, 3, Len(value.s))

\* the field value as it was sent is absent, does not begin with "Bearer ",
\* or has nothing but blanks after it
NoTokenSent(value) ==
  \/ value.t # "string"
  \/ ~StartsWithBearer(value.s)
  \/ \A i \in 1..Len(SentToken(value)) : SentToken(value)[i] = " "

\* C19: verifyToken answers 401 with the missing-or-malformed-header
\* message when the Authorization header is absent, uses another scheme, or
\* is 'Bearer ' with an empty token; a token-specific message is given only
\* for a non-empty token that failed validation; every rejection is a 401.
C19_MissingHeaderMessage ==
  (last.op = "authenticate" /\ last.request.pathname # LoginPath) =>
    LET value == last.request.authorization
    IN  /\ NoTokenSent(value) =>
             last.result = Rejected(ErrorResponse(MissingHeaderMessage, 401))
        /\ last.result.kind = "response" =>
             last.result.response.status = 401
        /\ (/\ last.result.kind = "response"
            /\ last.result.response.body.error # MissingHeaderMessage) =>
              /\ ~NoTokenSent(value)
              /\ ~ValidateJWT(SentToken(value), env.JWT_SECRET, now).ok

C19_Witness ==
  /\ last.op = "authenticate"
  /\ last.request.pathname = SessionPath
  /\ last.request.authorization = Str(<< "Bearer", " " >>)
  /\ last.result = Rejected(ErrorResponse(MissingHeaderMessage, 401))

\* C20: a token that splits on '.' into exactly 3 parts of which at least
\* one is empty is rejected by validateJWT as 'Invalid token format'.
C20_EmptyPartIsMalformed ==
  last.op = "validate" =>
    LET parts == Split(last.token, ".")
    IN  (Len(parts) = 3 /\ \E i \in 1..3 : parts[i] = << >>) =>
          last.result = Throw("Invalid token format")

\* the claims object a token carries: what JSON.parse gives back for the
\* payload that generateJWT serialised
EmbeddedClaims(payload) == JsonParse(JsonStringify(payload)).val

\* C21: every claims object embedded in a token that a login path issued has
\* exp > iat, whatever JWT_EXPIRY is configured.
C21_ExpiryAfterIssue ==
  (last.op = "login" /\ last.outcome.accepted
   /\ last.path \in LoginServingPaths) =>
     LET claims == EmbeddedClaims(last.outcome.payload)
     IN  claims.exp.t = "number" /\ claims.exp.n > claims.iat

\* the indices of the table entries that match the method and the path
Matching(method, pathname) ==
  {i \in 1..Len(routes) : EntryMatches(routes[i], method, pathname)}

\* the matching entry that was registered first
FirstMatching(method, pathname) ==
  CHOOSE i \in Matching(method, pathname) :
    \A j \in Matching(method, pathname) : i <= j

\* C22: when several table entries match the method and the path, findRoute
\* returns the handler and the parameters of the one registered first; an
\* entry that registerRoute appended later does not take its place.
C22_FirstRegisteredWins ==
  (last.op = "findRoute"
   /\ Cardinality(Matching(last.method, last.pathname)) >= 2) =>
     LET first == routes[FirstMatching(last.method, last.pathname)]
         own == MatchPattern(Split(first.pattern, " ")[2], last.pathname)
     IN  /\ last.result.kind = "match"
         /\ last.result.handler = first.handler
         /\ own.kind = "match"
         /\ last.result.params = own.params

\* the segments of a table entry's path pattern
PatternSegments(entry) == Segments(Split(entry.pattern, " ")[2])

\* C23: a capture segment always matches.  For every table entry with as
\* many segments as the path and equal literal segments, matchPattern
\* succeeds whatever the captured path segments contain, and records each
\* capture's percent-decoded value under its parameter name; no content of
\* a captured segment makes the match fail or raise.  A capture stands for
\* one path segment: an entry matches only a path with as many segments as
\* its pattern, and no recorded value contains a '/'.
C23_CaptureAlwaysMatches ==
  last.op = "findRoute" =>
    \A i \in 1..Len(routes) :
      LET pat == PatternSegments(routes[i])
          path == Segments(last.pathname)
          m == MatchPattern(Split(routes[i].pattern, " ")[2], last.pathname)
      IN  /\ EntryMatches(routes[i], last.method, last.pathname) =>
               /\ m.kind = "match"
               /\ \A k \in 1..Len(pat) :
                    Head(pat[k]) = ":" =>
                      /\ DecodeURIComponent(path[k]).ok
                      /\ [name |-> Tail(pat[k]),
                          value |-> DecodeURIComponent(path[k]).val]
                           \in m.params
          /\ m.kind = "match" =>
               /\ Len(pat) = Len(path)
               /\ \A q \in m.params :
                    \A j \in 1..Len(q.value) : q.value[j] # "/"

\* C24: the route table is fixed for the lifetime of the process.  It holds
\* exactly the entries built at module load, in their order: no operation
\* reachable from a request and no exported operation adds, removes or
\* reorders an entry.
C24_RouteTableFixed == routes = InitialRoutes

\* the users table of the single-administrator scope: one row, the
\* administrator with id 1 and the configured digest as password
SingleAdminTable ==
  {[id |-> 1, username |-> env.ADMIN_USERNAME, password |-> env.ADMIN_PASSWORD]}

\* C25: with the administrator as the only user row, the configuration-based
\* login and the store-based login end the same way for the same credentials
\* and environment: the same error kind, message and status, or a token with
\* the same userId, the same claims and the same expiresIn.
C25_StrategiesAgree ==
  (last.op = "login" /\ last.path = "config") =>
    LET viaStore == ServiceOutcome(
                   StoreAuthServiceLogin(last.credentials, env,
                                         SingleAdminTable, now))
    IN  /\ viaStore.accepted = last.outcome.accepted
        /\ viaStore.name = last.outcome.name
        /\ viaStore.message = last.outcome.message
        /\ viaStore.status = last.outcome.status
        /\ viaStore.payload = last.outcome.payload
        /\ viaStore.expiresIn = last.outcome.expiresIn

C25_Witness ==
  /\ last.op = "login"
  /\ last.path = "config"
  /\ last.outcome.accepted
  /\ last.outcome.payload.userId = 1
  /\ ServiceOutcome(StoreAuthServiceLogin(last.credentials, env,
                                          SingleAdminTable, now)).accepted
  /\ \E c \in Credentials :
       /\ ~ServiceOutcome(ConfigAuthServiceLogin(c, env, now)).accepted
       /\ ServiceOutcome(ConfigAuthServiceLogin(c, env, now)).status = 401

\* authenticate lets a request for this path through without looking for a
\* token
TreatedAsPublic(pathname) ==
  Authenticate([method |-> << "GET" >>, pathname |-> pathname,
                authorization |-> Undefined, body |-> NoBody,
                bodyUsed |-> FALSE], env, now).authorized

\* C26: the gate and the router agree on what the login endpoint is.  A
\* request is dispatched to handleLogin only if authenticate treats its path
\* as public, and a request whose path authenticate treats as public is
\* dispatched to handleLogin or to no handler at all (404), never to the
\* session handler or an /admin handler.
C26_GateAndRouterAgree ==
  last.op = "fetch" =>
    /\ last.handler = "handleLogin" => TreatedAsPublic(last.request.pathname)
    /\ TreatedAsPublic(last.request.pathname) =>
         \/ last.handler = "handleLogin"
         \/ /\ last.handler = "none"
            /\ \/ last.response.status = 404
               \/ last.request.method = << "OPTIONS" >>

\* the errors validateJWT can only raise once it reads the payload segment
PayloadErrors == {"Token expired", "SyntaxError", "TypeError"}

\* the signature segment decodes to the MAC of 'header.payload' under the
\* secret
SignatureVerifies(parts, secret) ==
  /\ Base64UrlDecode(parts[3]).ok
  /\ VerifySignature(parts[1] \o << "." >> \o parts[2],
                     Base64UrlDecode(parts[3]).val, secret)

\* the outcome of validateJWT on a token of three parts, given whether its
\* signature segment decodes and whether the signature verifies
StagedOutcome(result, decodes, verifies) ==
  /\ ~verifies => (~result.ok /\ result.err \notin PayloadErrors)
  /\ (decodes /\ ~verifies) => result = Throw("Invalid signature")
  /\ (result.ok \/ result = Throw("Token expired")) => verifies

\* the outcome of validateJWT on a token split into its parts
StagedResult(result, parts, secret) ==
  IF Len(parts) # 3 THEN result = Throw("Invalid token format")
  ELSE StagedOutcome(result, Base64UrlDecode(parts[3]).ok,
                     SignatureVerifies(parts, secret))

\* C27: validateJWT checks format, then signature, then expiry.  A token
\* that has not three parts is rejected for its format.  A token whose
\* signature does not verify is rejected before its payload segment is
\* decoded: no error of the payload stage is reported and no claims are
\* returned, and if its signature segment decodes it is 'Invalid signature',
\* also when the token is expired.  'Token expired' and a returned payload
\* occur only for a verified signature.
C27_FormatSignatureExpiry ==
  last.op = "validate" =>
    StagedResult(last.result, Split(last.token, "."), last.secret)

\* an expired token is presented under a secret it was not signed with
C27_Witness ==
  /\ last.op = "validate"
  /\ \E i \in issued :
       /\ i.token = last.token
       /\ i.secret # last.secret
       /\ Expired(i.payload, now)
       /\ ValidateJWT(i.token, i.secret, now) = Throw("Token expired")
  /\ last.result = Throw("Invalid signature")

\* the claims object that a payload text holds
ParsedClaims(parsed) ==
  IF parsed.ok /\ parsed.val.t = "object" THEN Ok(parsed.val)
  ELSE Throw("none")

\* the claims object that a decoded payload segment holds
DecodedClaims(text) ==
  IF text.ok THEN ParsedClaims(JsonParse(text.val)) ELSE Throw("none")

\* the claims of a token of three parts whose signature verifies
PartsClaims(parts, secret) ==
  IF Len(parts) = 3 /\ SignatureVerifies(parts, secret)
  THEN DecodedClaims(Base64UrlDecodeString(parts[2]))
  ELSE Throw("none")

\* the claims that a correctly signed token carries, if its payload segment
\* holds a claims object
SignedClaims(token, secret) == PartsClaims(Split(token, "."), secret)

\* the clock values from now on
LaterTimes == now..(Epoch + MaxTick + 1)

\* exp is a number other than 0 and smaller than the time t
Late(claims, t) ==
  claims.exp.t = "number" /\ claims.exp.n # 0 /\ claims.exp.n < t

\* the outcome of validateJWT for the claims of a correctly signed token,
\* now and at every later time
ExpiryOutcome(result, signed) ==
  signed.ok =>
    /\ result = IF Late(signed.val, now) THEN Throw("Token expired")
                ELSE Ok(signed.val)
    /\ Late(signed.val, now) =>
         \A t \in LaterTimes : Expired(signed.val, t)
    /\ (signed.val.exp.t # "number" \/ signed.val.exp.n = 0) =>
         \A t \in LaterTimes : ~Expired(signed.val, t)

\* C28: for a correctly signed token validateJWT rejects for expiry exactly
\* when exp is a number other than 0 and smaller than the current time in
\* seconds, and returns the claims otherwise: the token is still accepted in
\* the second now = exp, a token rejected for expiry is rejected at every
\* later time, and a token whose exp is null or 0 is accepted at every time.
C28_ExpiredExactlyAfterExp ==
  last.op = "validate" =>
    ExpiryOutcome(last.result, SignedClaims(last.token, last.secret))

\* a token is validated in the very second of its expiry, after time passed
C28_Witness ==
  /\ last.op = "validate"
  /\ last.result.ok
  /\ last.result.val.exp = Num(now)
  /\ last.result.val.iat < now
  /\ ValidateJWT(last.token, last.secret, now + 1) = Throw("Token expired")

\* the tags a request body names
Requested(call) == {call.data.tags[i] : i \in 1..Len(call.data.tags)}

\* C29: a createPost, updatePost, deletePost or deleteComment request that
\* is answered 400 or 404 has written nothing to the store: no post row, tag
\* row or post-tag row inserted, nothing updated, nothing deleted
C29_RejectedWritesNothing ==
  (last # Idle /\ last.status \in {ValidationErrorStatus, NotFoundStatus})
    => ~last.call.wrote

\* an updatePost is answered 400 for a slug another post holds, while the
\* post it names exists
C29_Witness ==
  /\ last # Idle
  /\ last.op = "updatePost"
  /\ last.status = ValidationErrorStatus
  /\ last.call.pc = "findBySlugExcludingId"
  /\ ~last.call.wrote

\* the awaits of updatePost that follow deletePostTags
AfterDeletePostTags ==
  {"findTagByName", "createTag", "createPostTag", "getPostWithTags"}

\* the row of post postId carries the fields of the request body
FieldsUpdated(call) ==
  \E p \in store.posts : p.id = call.id /\ p.title = call.data.title

\* C30: when updatePost is answered 200 the tags of the post are exactly
\* the tags of the request body, each of them a row of the tags table; when
\* a store call fails after the request deleted the post's post-tag rows,
\* the post has the new fields and a tag set that is neither the one it had
\* nor the requested one
C30_TagsAsRequested ==
  (last # Idle /\ last.op = "updatePost") =>
    /\ last.status = 200 =>
         /\ TagsOf(last.call.id) = Requested(last.call)
         /\ Requested(last.call) \subseteq store.tags
    /\ (last.status = InternalErrorStatus
          /\ last.call.pc \in AfterDeletePostTags) =>
         /\ FieldsUpdated(last.call)
         /\ TagsOf(last.call.id) \notin {last.call.oldTags,
                                         Requested(last.call)}

====
